---------------------------- MODULE Spec2Model ----------------------------
(***************************************************************************)
(* State-machine model of the graph mapping service:                       *)
(*   - JobManager (app/jobs.py): start_job, _process_job, shutdown;        *)
(*   - GraphMappingService (app/services/graph.py): the expansion engine;  *)
(*   - AddressClassifier (app/services/classification.py);                 *)
(*   - GraphRepository (app/db.py): the incident_graphs, graph_nodes and   *)
(*     graph_edges tables.                                                 *)
(*                                                                         *)
(* One step of a coroutine is the code between two suspension points (a    *)
(* repository call, an Etherscan call, asyncio.sleep): the effect of the   *)
(* awaited call followed by the synchronous code up to the next call.      *)
(* Amounts are integers in units of 1/UnitsPerEth ETH; time is an integer  *)
(* number of seconds.  Timestamps of rows (created_at, updated_at), block  *)
(* numbers and gas_used are carried through by the code unchanged and are  *)
(* left out.                                                               *)
(***************************************************************************)
EXTENDS Integers, Sequences, FiniteSets, TLC

VARIABLES
    now,             \* time.time()
    chain,           \* what Etherscan's txlist returns for each address
    cache,           \* EtherscanService.cache: the entry of each address
    quota,           \* number of start requests still to arrive
    opt_choices,     \* the option sets a start request may carry
    requests,        \* start_job coroutines, by request id
    active_jobs,     \* JobManager.active_jobs
    job_tasks,       \* JobManager.job_tasks (a dict: insertion ordered)
    last_job_start,  \* JobManager.last_job_start
    tasks,           \* _process_job tasks with their GraphMappingService
    incident_graphs, \* table incident_graphs, by incident_id
    graph_nodes,     \* table graph_nodes, by incident_id
    graph_edges,     \* table graph_edges, by incident_id
    faults,          \* repository writes that will still fail
    sd,              \* JobManager.shutdown coroutine and the Etherscan client
    status_call,     \* a get_job_status coroutine and its response
    settings,        \* the processing limits of the configuration
    probe            \* a call of a pure operation: its arguments and its result

vars == << now, chain, cache, quota, opt_choices, requests, active_jobs, job_tasks,
           last_job_start, tasks, incident_graphs, graph_nodes, graph_edges,
           faults, sd, status_call, settings, probe >>

---------------------------------------------------------------------------
(* Bounds of the model *)

\* the clock stops here
MaxTime == 3
\* settings.max_api_calls_per_incident as configured (default 25)
max_api_calls == 4
\* settings.max_depth as configured (default 8)
max_depth == 4
\* settings.max_nodes_per_graph as configured (default 500)
max_nodes == 7
\* settings.max_transactions_per_node as configured (default 5)
max_transactions_per_node == 2
\* settings.processing_timeout_seconds as configured (default 30)
timeout_seconds == 1

---------------------------------------------------------------------------
(* Program constants *)

UnitsPerEth == 10000
None == -1
min_job_interval == 1
\* settings.min_transaction_value_eth = 0.05, in units
min_transaction_value == 500
\* settings.min_percentage_*_hack, in tenths of a percent
min_percentage_large_hack == 1
min_percentage_medium_hack == 5
min_percentage_small_hack == 10
reuse_threshold == 3
high_frequency == 100
consolidation == 3
\* _get_total_stolen_amount: the placeholder 100.0 ETH
total_stolen_eth == 100
\* settings.cache_ttl_seconds
cache_ttl_seconds == 600

Min(a, b) == IF a < b THEN a ELSE b
Max(a, b) == IF a < b THEN b ELSE a
Range(s) == { s[i] : i \in 1..Len(s) }
Truthy(x) == x # None /\ x # 0

RECURSIVE SelectSeqBy(_, _, _)
\* the subsequence of s whose elements e have keep[e] (a list comprehension)
SelectSeqBy(s, keep, i) ==
    IF i > Len(s) THEN << >>
    ELSE (IF keep[s[i]] THEN << s[i] >> ELSE << >>) \o SelectSeqBy(s, keep, i + 1)

---------------------------------------------------------------------------
(* Incidents and the chain *)

IncidentIds == { "i1", "i2", "i9" }
\* table incidents: i9 is not in it
incidents == { "i1", "i2" }
wallet_address == [ i \in incidents |-> "v" ]
\* table transaction_details: the hack transaction of i1; none for i2
RawTx(f, t, v, h, g) == [ from |-> f, to |-> t, value |-> v, hash |-> h, gasPrice |-> g ]
transaction_details ==
    [ i \in incidents |->
        IF i = "i1" THEN << [ to_address |-> "h", value |-> 100 * UnitsPerEth,
                              transaction_hash |-> "hack" ] >>
        ELSE << >> ]

Addresses == { "v", "h", "a", "b", "c", "bin1", "bin2", "uni" }

\* AddressClassifier.known_addresses (three of its entries)
known_addresses ==
    [ a \in { "bin1", "bin2", "uni" } |->
        IF a = "uni" THEN [ entity_type |-> "DEX", confidence |-> 90, name |-> "Uniswap V2 Router" ]
        ELSE [ entity_type |-> "CEX", confidence |-> 95, name |-> "Binance" ] ]

NoTxs == [ a \in Addresses |-> << >> ]
\* the hacker never moved the funds
WorldSeedOnly == NoTxs
\* h -> a -> b -> c -> an exchange, and a transfer below the value floor
WorldChain ==
    [ NoTxs EXCEPT !["h"] = << RawTx("h", "a", 50 * UnitsPerEth, "t1", 10) >>,
                   !["a"] = << RawTx("a", "b", 20 * UnitsPerEth, "t2", 10),
                               RawTx("a", "v", 100, "t3", 10) >>,
                   !["b"] = << RawTx("b", "c", 10 * UnitsPerEth, "t4", 30) >>,
                   !["c"] = << RawTx("c", "bin1", 10 * UnitsPerEth, "t5", 10) >> ]
\* h fans out to a and b, which send back and to an exchange
WorldFan ==
    [ NoTxs EXCEPT !["h"] = << RawTx("h", "a", 30 * UnitsPerEth, "t1", 10),
                               RawTx("h", "b", 60 * UnitsPerEth, "t2", 10),
                               RawTx("v", "h", 100 * UnitsPerEth, "hack", 10) >>,
                   !["a"] = << RawTx("a", "h", 5 * UnitsPerEth, "t3", 10),
                               RawTx("a", "bin1", 20 * UnitsPerEth, "t4", 10) >>,
                   !["b"] = << RawTx("b", "a", 40 * UnitsPerEth, "t5", 10),
                               RawTx("b", "bin2", 10 * UnitsPerEth, "t6", 10) >> ]
\* h sends straight to an exchange
WorldExchange ==
    [ NoTxs EXCEPT !["h"] = << RawTx("h", "bin1", 50 * UnitsPerEth, "t1", 10) >> ]

\* h sends to a, which deposits at an exchange
WorldDeposit ==
    [ NoTxs EXCEPT !["h"] = << RawTx("h", "a", 50 * UnitsPerEth, "t1", 10) >>,
                   !["a"] = << RawTx("a", "bin1", 20 * UnitsPerEth, "t2", 10) >> ]

\* h and a each send to themselves and to each other
WorldLoop ==
    [ NoTxs EXCEPT !["h"] = << RawTx("h", "h", 10 * UnitsPerEth, "t1", 10),
                               RawTx("h", "a", 20 * UnitsPerEth, "t2", 10) >>,
                   !["a"] = << RawTx("a", "a", 5 * UnitsPerEth, "t3", 10),
                               RawTx("a", "h", 5 * UnitsPerEth, "t4", 10) >> ]

\* h sends to a in two transactions
WorldTwice ==
    [ NoTxs EXCEPT !["h"] = << RawTx("h", "a", 30 * UnitsPerEth, "t1", 10),
                               RawTx("h", "a", 20 * UnitsPerEth, "t2", 10) >> ]

\* h sends to two addresses of the same exchange
WorldTwoDeposits ==
    [ NoTxs EXCEPT !["h"] = << RawTx("h", "bin1", 50 * UnitsPerEth, "t1", 10),
                               RawTx("h", "bin2", 30 * UnitsPerEth, "t2", 10) >> ]

\* h sends the smaller part to one exchange, then the larger to another
WorldTwoExchanges ==
    [ NoTxs EXCEPT !["h"] = << RawTx("h", "bin1", 30 * UnitsPerEth, "t1", 10),
                               RawTx("h", "uni", 50 * UnitsPerEth, "t2", 10) >> ]

Worlds ==
    { WorldSeedOnly, WorldChain, WorldFan, WorldExchange, WorldDeposit, WorldLoop, WorldTwice,
      WorldTwoDeposits, WorldTwoExchanges }
CtlWorlds == { WorldSeedOnly, WorldExchange }

---------------------------------------------------------------------------
(* AddressClassifier *)

Details(text, n, m) == [ text |-> text, n |-> n, m |-> m ]
NoDetails == Details("None", 0, 0)
Classification(t, c, d) == [ entity_type |-> t, confidence |-> c, details |-> d ]

classify_by_heuristics(address, transaction_count, daily_tx_count) ==
    IF transaction_count > 10000
    THEN IF daily_tx_count > 500
         THEN Classification("CEX", 40, Details("High volume", transaction_count, daily_tx_count))
         ELSE Classification("potential_endpoint", 30,
                             Details("High historical volume", transaction_count, 0))
    ELSE IF transaction_count > 1000
    THEN Classification("potential_endpoint", 25, Details("Moderate volume", transaction_count, 0))
    ELSE IF transaction_count < 100 /\ daily_tx_count < 5
    THEN Classification("potential_endpoint", 20, Details("Low activity wallet", 0, 0))
    ELSE Classification("Unknown", 0, NoDetails)

\* the statistics consulted before the directory
classify_address_stats_first(address, transaction_count, daily_tx_count, times_seen_in_graph) ==
    IF daily_tx_count > high_frequency
    THEN Classification("high_frequency_service", 60, Details("High frequency", daily_tx_count, 0))
    ELSE IF address \in DOMAIN known_addresses
    THEN Classification(known_addresses[address].entity_type,
                        known_addresses[address].confidence,
                        Details(known_addresses[address].name, 0, 0))
    ELSE IF times_seen_in_graph >= consolidation
    THEN Classification("consolidation_point", 70, Details("Seen in graph", times_seen_in_graph, 0))
    ELSE classify_by_heuristics(address, transaction_count, daily_tx_count)

classify_address(address, transaction_count, daily_tx_count, times_seen_in_graph) ==
    IF address \in DOMAIN known_addresses
    THEN Classification(known_addresses[address].entity_type,
                        known_addresses[address].confidence,
                        Details(known_addresses[address].name, 0, 0))
    ELSE IF daily_tx_count > high_frequency
    THEN Classification("high_frequency_service", 60, Details("High frequency", daily_tx_count, 0))
    ELSE IF times_seen_in_graph >= consolidation
    THEN Classification("consolidation_point", 70, Details("Seen in graph", times_seen_in_graph, 0))
    ELSE classify_by_heuristics(address, transaction_count, daily_tx_count)

should_terminate_exploration(address, entity_type, confidence_score, transaction_count, outgoing_tx_count, cumulative_value_percentage) ==
    IF confidence_score > 70 /\ entity_type \in { "CEX", "DEX", "Mixer" }
    THEN [ terminate |-> TRUE, reason |-> "high_confidence_classification" ]
    ELSE IF outgoing_tx_count > 200
    THEN [ terminate |-> TRUE, reason |-> "high_transaction_volume" ]
    ELSE IF cumulative_value_percentage < 5
    THEN [ terminate |-> TRUE, reason |-> "insufficient_value_flow" ]
    ELSE IF entity_type = "high_frequency_service"
    THEN [ terminate |-> TRUE, reason |-> "high_frequency_service_detected" ]
    ELSE [ terminate |-> FALSE, reason |-> "" ]

\* settings.get_processing_limits() of the configuration as bounded above
limits ==
    [ max_nodes |-> max_nodes, max_api_calls |-> max_api_calls,
      max_transactions_per_node |-> max_transactions_per_node,
      timeout_seconds |-> timeout_seconds, max_depth |-> max_depth ]

\* a configuration with max_depth = 1: the hacker seed lies at the cutoff
ShallowLimits == [ limits EXCEPT !.max_depth = 1 ]
\* a configuration with max_nodes_per_graph = 3
NarrowLimits == [ limits EXCEPT !.max_nodes = 3 ]

---------------------------------------------------------------------------
(* The working graph: a networkx DiGraph.  nodes is the insertion order of *)
(* the nodes, attr their attribute dicts, edges the (from, to) pairs in    *)
(* the order they were first added, each with its attribute dict.  An      *)
(* attribute that is not set is "None" (None for a number).                *)

NodeData(depth, entity_type, confidence_score) ==
    [ depth_from_hack |-> depth, entity_type |-> entity_type,
      confidence_score |-> confidence_score, transaction_count |-> None,
      classification_details |-> NoDetails, termination_reason |-> "None",
      manual_exploration_ready |-> FALSE, consolidated_addresses |-> << >> ]

EdgeData(f, t, tx_hash, value, priority_score, gas_price, filter_reason) ==
    [ from |-> f, to |-> t, transaction_hash |-> tx_hash, value_eth |-> value,
      priority_score |-> priority_score, gas_price |-> gas_price,
      filter_reason |-> filter_reason, flow_percentage |-> None, importance |-> "None" ]

EmptyEngine ==
    [ nodes |-> << >>, attr |-> << >>, edges |-> << >>,
      pending_nodes |-> << >>, processed_nodes |-> {},
      address_visit_count |-> [ a \in Addresses |-> 0 ],
      api_calls_used |-> 0, nodes_processed |-> 0, edges_created |-> 0, limits |-> limits,
      processing_start_time |-> None, current_address |-> "None", current_depth |-> None ]

HasNode(e, a) == a \in Range(e.nodes)
EdgeIndex(e, f, t) == { i \in 1..Len(e.edges) : e.edges[i].from = f /\ e.edges[i].to = t }
HasEdge(e, f, t) == EdgeIndex(e, f, t) # {}
out_degree(e, a) == Cardinality({ i \in 1..Len(e.edges) : e.edges[i].from = a })

\* graph.add_node(address, depth_from_hack=depth, **kwargs): an existing
\* node keeps its place and has the given attributes overwritten
add_graph_node(e, address, depth, entity_type, confidence_score) ==
    IF HasNode(e, address)
    THEN [ e EXCEPT !.attr[address].depth_from_hack = depth,
                    !.attr[address].entity_type =
                        IF entity_type = "None" THEN @ ELSE entity_type,
                    !.attr[address].confidence_score =
                        IF confidence_score = None THEN @ ELSE confidence_score ]
    ELSE [ e EXCEPT !.nodes = Append(@, address),
                    !.attr = (address :> NodeData(depth, entity_type, confidence_score)) @@ @ ]

\* graph.add_edge(u, v, **data) on a DiGraph: one edge per (u, v); adding it
\* again overwrites the attributes given
nx_add_edge(e, data) ==
    IF HasEdge(e, data.from, data.to)
    THEN LET i == CHOOSE j \in EdgeIndex(e, data.from, data.to) : TRUE
         IN  [ e EXCEPT !.edges[i] = data ]
    ELSE [ e EXCEPT !.edges = Append(@, data) ]

add_graph_edge(e, from_addr, to_addr, tx_hash, value, priority_score, gas_price, filter_reason) ==
    nx_add_edge(e, EdgeData(from_addr, to_addr, tx_hash, value, priority_score,
                            gas_price, filter_reason))

\* graph.remove_node(a): the node and every edge that touches it
nx_remove_node(e, a) ==
    [ e EXCEPT !.nodes = SelectSeq(@, LAMBDA x : x # a),
               !.attr = [ x \in (DOMAIN @) \ { a } |-> @[x] ],
               !.edges = SelectSeq(@, LAMBDA d : d.from # a /\ d.to # a) ]

---------------------------------------------------------------------------
(* GraphMappingService: the filter pipeline *)

get_total_stolen_amount == total_stolen_eth * UnitsPerEth

get_min_percentage_threshold(hack_value) ==
    IF hack_value > 100 * UnitsPerEth THEN min_percentage_large_hack
    ELSE IF hack_value > 10 * UnitsPerEth THEN min_percentage_medium_hack
    ELSE min_percentage_small_hack

\* EtherscanService.normalize_transaction: the fields the engine reads
normalize_transaction(raw_tx) ==
    [ from_address |-> raw_tx.from, to_address |-> raw_tx.to, value |-> raw_tx.value,
      gas_price |-> raw_tx.gasPrice, transaction_hash |-> raw_tx.hash, priority_score |-> 0 ]

calculate_priority_score(tx, value) ==
    LET base  == IF value > 10 * UnitsPerEth THEN 50
                 ELSE IF value > UnitsPerEth THEN 30
                 ELSE IF 10 * value > UnitsPerEth THEN 20
                 ELSE 10
        round == IF (value * 1000) % UnitsPerEth = 0 THEN 10 ELSE 0
        gas   == IF tx.gas_price > 20 THEN 15 ELSE 0
    IN  Min(base + round + gas, 100)

\* the primary tier: outgoing, above the value floor, above the percentage
\* (percentage < min_percentage, with min_percentage in tenths of a percent)
primary_filter(tx, current_address, hack_value) ==
    /\ tx.from_address = current_address
    /\ ~ (tx.value < min_transaction_value)
    /\ hack_value > 0 => ~ (tx.value * 1000 < get_min_percentage_threshold(hack_value) * hack_value)

secondary_filter(e, tx) ==
    LET score == calculate_priority_score(tx, tx.value)
        times_seen == e.address_visit_count[tx.to_address]
    IN  [ tx EXCEPT !.priority_score =
            IF times_seen >= reuse_threshold THEN score + 20 ELSE score ]

RECURSIVE InsertByPriority_ties_first(_, _)
\* a sort that puts tx before the entries of its own score
InsertByPriority_ties_first(sorted, tx) ==
    IF sorted = << >> THEN << tx >>
    ELSE IF Head(sorted).priority_score > tx.priority_score
    THEN << Head(sorted) >> \o InsertByPriority_ties_first(Tail(sorted), tx)
    ELSE << tx >> \o sorted

RECURSIVE InsertByPriority(_, _)
\* list.sort(key=priority_score, reverse=True) is stable: tx goes behind
\* every entry whose score is at least its own
InsertByPriority(sorted, tx) ==
    IF sorted = << >> THEN << tx >>
    ELSE IF Head(sorted).priority_score >= tx.priority_score
    THEN << Head(sorted) >> \o InsertByPriority(Tail(sorted), tx)
    ELSE << tx >> \o sorted

RECURSIVE SortByPriority(_, _)
SortByPriority(txs, i) ==
    IF i = 0 THEN << >>
    ELSE InsertByPriority(SortByPriority(txs, i - 1), txs[i])

apply_filtering_pipeline(e, transactions, current_address, depth) ==
    IF transactions = << >> THEN << >>
    ELSE LET hack_value == get_total_stolen_amount
             normalized == [ i \in 1..Len(transactions) |-> normalize_transaction(transactions[i]) ]
             primary == SelectSeq(normalized,
                                  LAMBDA tx : primary_filter(tx, current_address, hack_value))
             secondary == [ i \in 1..Len(primary) |-> secondary_filter(e, primary[i]) ]
         IN  SortByPriority(secondary, Len(secondary))

---------------------------------------------------------------------------
(* GraphMappingService: expansion *)

initialize_graph(e, incident_id) ==
    LET victim_address == wallet_address[incident_id]
        hack_tx == transaction_details[incident_id][1]
        hacker_address == hack_tx.to_address
        e1 == add_graph_node(e, victim_address, 0, "victim_wallet", 100)
        e2 == add_graph_node(e1, hacker_address, 1, "hacker_wallet", 95)
        e3 == add_graph_edge(e2, victim_address, hacker_address, hack_tx.transaction_hash,
                             hack_tx.value, 100, None, "initial_hack_transaction")
    IN  [ e3 EXCEPT !.pending_nodes = Append(@, << hacker_address, 1 >>) ]

\* a destination queued whether or not the graph holds it
process_transaction_requeue(e, tx, from_address, depth) ==
    LET to_address == tx.to_address
        e1 == IF HasNode(e, to_address) THEN e
              ELSE add_graph_node(e, to_address, depth + 1, "None", None)
        e2 == IF depth + 1 < e.limits.max_depth
              THEN [ e1 EXCEPT !.pending_nodes = Append(@, << to_address, depth + 1 >>) ]
              ELSE e1
        e3 == add_graph_edge(e2, from_address, to_address, tx.transaction_hash, tx.value,
                             tx.priority_score, tx.gas_price, "filtered_transaction")
    IN  [ e3 EXCEPT !.edges_created = @ + 1 ]

process_transaction(e, tx, from_address, depth) ==
    LET to_address == tx.to_address
        isnew == ~ HasNode(e, to_address)
        e1 == IF isnew THEN add_graph_node(e, to_address, depth + 1, "None", None) ELSE e
        e2 == IF isnew /\ depth + 1 < e.limits.max_depth
              THEN [ e1 EXCEPT !.pending_nodes = Append(@, << to_address, depth + 1 >>) ]
              ELSE e1
        e3 == add_graph_edge(e2, from_address, to_address, tx.transaction_hash, tx.value,
                             tx.priority_score, tx.gas_price, "filtered_transaction")
    IN  [ e3 EXCEPT !.edges_created = @ + 1 ]

RECURSIVE process_transactions(_, _, _, _, _)
\* for tx_data in filtered_transactions[:max_transactions_per_node]
process_transactions(e, txs, n, from_address, depth) ==
    IF n = 0 THEN e
    ELSE process_transaction(process_transactions(e, txs, n - 1, from_address, depth),
                             txs[n], from_address, depth)

\* should_terminate_exploration is called with five positional arguments:
\* cumulative_value_percentage keeps its default
cumulative_value_percentage_default == 0

check_termination_conditions(e, address, total_tx_count, filtered_tx_count) ==
    LET c == classify_address(address, total_tx_count, 0, e.address_visit_count[address])
        e1 == IF HasNode(e, address)
              THEN [ e EXCEPT !.attr[address].entity_type = c.entity_type,
                              !.attr[address].confidence_score = c.confidence,
                              !.attr[address].transaction_count = total_tx_count,
                              !.attr[address].classification_details = c.details ]
              ELSE e
        t == should_terminate_exploration(address, c.entity_type, c.confidence, total_tx_count,
                                          filtered_tx_count, cumulative_value_percentage_default)
        e2 == IF HasNode(e1, address)
              THEN [ e1 EXCEPT !.attr[address].termination_reason = t.reason,
                               !.attr[address].manual_exploration_ready = (c.confidence < 80) ]
              ELSE e1
    IN  IF t.terminate
        THEN [ e2 EXCEPT !.pending_nodes = SelectSeq(@, LAMBDA p : p[1] # address) ]
        ELSE e1

\* _process_node after get_account_transactions has returned transactions
process_node_fetched(e, address, depth, transactions) ==
    LET e1 == [ e EXCEPT !.api_calls_used = @ + 1 ]
        filtered == apply_filtering_pipeline(e1, transactions, address, depth)
        top == Min(Len(filtered), e.limits.max_transactions_per_node)
        e2 == process_transactions(e1, filtered, top, address, depth)
    IN  check_termination_conditions(e2, address, Len(transactions), Len(filtered))

\* a while condition without the call budget
traversal_continues_unbudgeted(e) ==
    /\ e.pending_nodes # << >>
    /\ Len(e.nodes) < e.limits.max_nodes

\* the while condition of _recursive_traversal
traversal_continues(e) ==
    /\ e.pending_nodes # << >>
    /\ e.api_calls_used < e.limits.max_api_calls
    /\ Len(e.nodes) < e.limits.max_nodes

\* the deadline check at the head of the loop body
timeout_reached(e, t) == t - e.processing_start_time > e.limits.timeout_seconds

\* a skip test without the depth cutoff
skip_node_processed_only(e, address, depth) == address \in e.processed_nodes

\* the skip test after the pop
skip_node(e, address, depth) ==
    address \in e.processed_nodes \/ depth >= e.limits.max_depth

\* after _process_node: mark processed, count, compute the progress
node_done(e) ==
    [ e EXCEPT !.processed_nodes = @ \cup { e.current_address },
               !.nodes_processed = @ + 1 ]

progress_of(e) == Min(95, (e.nodes_processed * 100) \div 20)

---------------------------------------------------------------------------
(* GraphMappingService: post-processing *)

\* a pruning that spares neither terminated nodes nor exchanges
remove_dead_ends_any(e) ==
    LET nodes_to_remove == { a \in Range(e.nodes) : out_degree(e, a) = 0 }
    IN  [ e EXCEPT !.nodes = SelectSeq(@, LAMBDA x : x \notin nodes_to_remove),
                   !.attr = [ x \in (DOMAIN @) \ nodes_to_remove |-> @[x] ],
                   !.edges = SelectSeq(@, LAMBDA d : d.from \notin nodes_to_remove
                                                     /\ d.to \notin nodes_to_remove) ]

remove_dead_ends(e) ==
    LET nodes_to_remove ==
            { a \in Range(e.nodes) :
                /\ out_degree(e, a) = 0
                /\ e.attr[a].termination_reason \in { "None", "" }
                /\ e.attr[a].entity_type \notin { "CEX", "DEX", "Mixer" } }
    IN  [ e EXCEPT !.nodes = SelectSeq(@, LAMBDA x : x \notin nodes_to_remove),
                   !.attr = [ x \in (DOMAIN @) \ nodes_to_remove |-> @[x] ],
                   !.edges = SelectSeq(@, LAMBDA d : d.from \notin nodes_to_remove
                                                     /\ d.to \notin nodes_to_remove) ]

\* list(graph.predecessors(addr)), list(graph.successors(addr))
predecessors(e, addr) ==
    LET into == SelectSeq(e.edges, LAMBDA d : d.to = addr)
    IN  [ i \in 1..Len(into) |-> into[i].from ]
successors(e, addr) ==
    LET outof == SelectSeq(e.edges, LAMBDA d : d.from = addr)
    IN  [ i \in 1..Len(outof) |-> outof[i].to ]
edge_data(e, f, t) == e.edges[CHOOSE i \in EdgeIndex(e, f, t) : TRUE]

RECURSIVE redirect_incoming(_, _, _, _, _)
\* for pred in preds[1..n]: add_edge(pred, master, **edges[pred, addr])
redirect_incoming(e, preds, n, addr, master) ==
    IF n = 0 THEN e
    ELSE LET e1 == redirect_incoming(e, preds, n - 1, addr, master)
         IN  IF preds[n] # master
             THEN nx_add_edge(e1, [ edge_data(e1, preds[n], addr) EXCEPT !.to = master ])
             ELSE e1

RECURSIVE redirect_outgoing(_, _, _, _, _)
\* for succ in succs[1..n]: add_edge(master, succ, **edges[addr, succ])
redirect_outgoing(e, succs, n, addr, master) ==
    IF n = 0 THEN e
    ELSE LET e1 == redirect_outgoing(e, succs, n - 1, addr, master)
         IN  IF succs[n] # master
             THEN nx_add_edge(e1, [ edge_data(e1, addr, succs[n]) EXCEPT !.from = master ])
             ELSE e1

merge_into_master(e, addr, master) ==
    LET preds == predecessors(e, addr)
        e1 == redirect_incoming(e, preds, Len(preds), addr, master)
        succs == successors(e1, addr)
        e2 == redirect_outgoing(e1, succs, Len(succs), addr, master)
    IN  nx_remove_node(e2, addr)

RECURSIVE merge_others(_, _, _, _)
merge_others(e, others, n, master) ==
    IF n = 0 THEN e
    ELSE merge_into_master(merge_others(e, others, n - 1, master), others[n], master)

\* a consolidation into the member discovered last
consolidate_address_group_last(e, addresses) ==
    IF Len(addresses) < 2 THEN e
    ELSE LET master_address == addresses[Len(addresses)]
             other_addresses == SubSeq(addresses, 1, Len(addresses) - 1)
             e1 == [ e EXCEPT !.attr[master_address].consolidated_addresses = other_addresses,
                              !.attr[master_address].entity_type =
                                  IF @ = "None" THEN "Unknown" ELSE @ ]
         IN  merge_others(e1, other_addresses, Len(other_addresses), master_address)

consolidate_address_group(e, addresses) ==
    IF Len(addresses) < 2 THEN e
    ELSE LET master_address == Head(addresses)
             other_addresses == Tail(addresses)
             e1 == [ e EXCEPT !.attr[master_address].consolidated_addresses = other_addresses,
                              !.attr[master_address].entity_type =
                                  IF @ = "None" THEN "Unknown" ELSE @ ]
         IN  merge_others(e1, other_addresses, Len(other_addresses), master_address)

\* entity_groups: the keys in the order the nodes first show them
RECURSIVE entity_keys(_, _)
entity_keys(e, n) ==
    IF n = 0 THEN << >>
    ELSE LET keys == entity_keys(e, n - 1)
             key == e.attr[e.nodes[n]].classification_details
         IN  IF key.text \notin { "None", "", "Unknown" } /\ key \notin Range(keys)
             THEN Append(keys, key) ELSE keys

entity_group(e, key) == SelectSeq(e.nodes, LAMBDA a : e.attr[a].classification_details = key)

RECURSIVE consolidate_groups(_, _, _, _)
\* e0 is the graph the groups were formed on
consolidate_groups(e, e0, keys, n) ==
    IF n = 0 THEN e
    ELSE LET e1 == consolidate_groups(e, e0, keys, n - 1)
             addresses == entity_group(e0, keys[n])
         IN  IF Len(addresses) > 1 THEN consolidate_address_group(e1, addresses) ELSE e1

consolidate_entities(e) ==
    LET keys == entity_keys(e, Len(e.nodes))
    IN  consolidate_groups(e, e, keys, Len(keys))

\* flow_percentage in units of 1/UnitsPerEth percent
analyze_flows(e) ==
    LET total_stolen == get_total_stolen_amount
        flow(d) == (d.value_eth * 100) \div (total_stolen \div UnitsPerEth)
    IN  IF total_stolen <= 0 THEN e
        ELSE [ e EXCEPT !.edges =
                 [ i \in 1..Len(e.edges) |->
                     [ e.edges[i] EXCEPT
                         !.flow_percentage = flow(e.edges[i]),
                         !.importance =
                             IF flow(e.edges[i]) > 10 * UnitsPerEth THEN "critical"
                             ELSE IF flow(e.edges[i]) > 2 * UnitsPerEth THEN "significant"
                             ELSE "minor" ] ] ]

optimize_graph(e) == analyze_flows(consolidate_entities(remove_dead_ends(e)))

---------------------------------------------------------------------------
(* GraphMappingService: results *)

RECURSIVE edges_in_order(_, _)
\* graph.edges(data=True): by source node in node order, then adjacency order
edges_in_order(e, n) ==
    IF n = 0 THEN << >>
    ELSE edges_in_order(e, n - 1) \o SelectSeq(e.edges, LAMBDA d : d.from = e.nodes[n])

RECURSIVE InsertByValue(_, _)
InsertByValue(sorted, path) ==
    IF sorted = << >> THEN << path >>
    ELSE IF Head(sorted).value_eth >= path.value_eth
    THEN << Head(sorted) >> \o InsertByValue(Tail(sorted), path)
    ELSE << path >> \o sorted

RECURSIVE SortByValue(_, _)
SortByValue(paths, i) ==
    IF i = 0 THEN << >>
    ELSE InsertByValue(SortByValue(paths, i - 1), paths[i])

entity_type_of(e, a) == IF e.attr[a].entity_type = "None" THEN "Unknown" ELSE e.attr[a].entity_type
confidence_of(e, a) == IF e.attr[a].confidence_score = None THEN 0 ELSE e.attr[a].confidence_score

generate_top_paths(e) ==
    LET all == edges_in_order(e, Len(e.nodes))
        significant == SelectSeq(all, LAMBDA d : 10 * d.value_eth > UnitsPerEth)
        paths == [ i \in 1..Len(significant) |->
                    [ path_id |-> i,
                      value_eth |-> significant[i].value_eth,
                      value_percentage |-> IF significant[i].flow_percentage = None THEN 0
                                           ELSE significant[i].flow_percentage,
                      hop_count |-> 1,
                      final_endpoint_type |-> entity_type_of(e, significant[i].to),
                      final_endpoint_confidence |-> confidence_of(e, significant[i].to) ] ]
        sorted == SortByValue(paths, Len(paths))
    IN  SubSeq(sorted, 1, Min(10, Len(sorted)))

\* the entity types the code assigns; endpoint_summary maps each to its count
\* (0 for a type the dict does not hold)
EntityTypes ==
    { "victim_wallet", "hacker_wallet", "CEX", "DEX", "Mixer", "Bridge",
      "high_frequency_service", "consolidation_point", "potential_endpoint", "Unknown" }

MaxOf(S) == IF S = {} THEN 0 ELSE CHOOSE x \in S : \A y \in S : y <= x

\* the arguments _finalize_results passes to update_graph_results
final_results(e) ==
    [ total_nodes |-> Len(e.nodes),
      total_edges |-> Len(e.edges),
      max_depth |-> MaxOf({ e.attr[a].depth_from_hack : a \in Range(e.nodes) }),
      api_calls_used |-> e.api_calls_used,
      endpoint_summary |->
          [ t \in EntityTypes |->
              Cardinality({ a \in Range(e.nodes) : entity_type_of(e, a) = t }) ],
      top_paths |-> generate_top_paths(e) ]

\* counts of what was processed, not of what the graph holds
partial_results_of_processed(e) ==
    [ present |-> TRUE, total_nodes |-> Cardinality(e.processed_nodes),
      total_edges |-> e.edges_created, max_depth |-> 0 ]

\* the partial_results of _handle_timeout and _handle_etherscan_error
partial_results_of(e) ==
    [ present |-> TRUE, total_nodes |-> Len(e.nodes), total_edges |-> Len(e.edges),
      max_depth |-> 0 ]

---------------------------------------------------------------------------
(* GraphRepository *)

NoPartial == [ present |-> FALSE, total_nodes |-> 0, total_edges |-> 0, max_depth |-> 0 ]
NoResults ==
    [ total_nodes |-> None, total_edges |-> None, max_depth |-> None, api_calls_used |-> None,
      endpoint_summary |-> [ t \in EntityTypes |-> 0 ], top_paths |-> << >> ]
\* no row of incident_graphs for the incident
NoRow ==
    [ exists |-> FALSE, status |-> "None", progress_percentage |-> None,
      current_step |-> "None", error_message |-> "None", error_code |-> "None",
      partial_results |-> NoPartial, results |-> NoResults ]

create_incident_graph(row) ==
    IF row.exists
    THEN [ row EXCEPT !.status = "pending", !.progress_percentage = 0,
                      !.current_step = "None", !.error_message = "None",
                      !.error_code = "None" ]
    ELSE [ NoRow EXCEPT !.exists = TRUE, !.status = "pending" ]

\* an argument left at None keeps the column
update_graph_status(row, status, progress, current_step, error_message, error_code, partial_results) ==
    IF ~ row.exists THEN row
    ELSE [ row EXCEPT !.status = status,
                      !.progress_percentage = IF progress = None THEN @ ELSE progress,
                      !.current_step = IF current_step = "None" THEN @ ELSE current_step,
                      !.error_message = IF error_message = "None" THEN @ ELSE error_message,
                      !.error_code = IF error_code = "None" THEN @ ELSE error_code,
                      !.partial_results = IF partial_results.present THEN partial_results ELSE @ ]

update_graph_results(row, results) ==
    IF ~ row.exists THEN row
    ELSE [ row EXCEPT !.status = "completed", !.progress_percentage = 100,
                      !.results = results ]

get_graph_status(incident_id) == incident_graphs[incident_id]

(* IncidentRepository *)

\* a lookup that finds a row for every id
get_incident_by_id_any(incident_id) == [ exists |-> TRUE, id |-> incident_id ]

\* the row of incidents, if there is one
get_incident_by_id(incident_id) ==
    [ exists |-> incident_id \in incidents, id |-> incident_id ]

\* rows of graph_nodes of one incident, by address; the conflict update
\* leaves depth_from_hack as it was
insert_graph_node(rows, address, data) ==
    LET row == [ entity_type |-> IF data.entity_type = "None" THEN "Unknown" ELSE data.entity_type,
                 confidence_score |-> IF data.confidence_score = None THEN 0
                                      ELSE data.confidence_score,
                 depth_from_hack |-> data.depth_from_hack,
                 transaction_count |-> IF data.transaction_count = None THEN 0
                                       ELSE data.transaction_count,
                 termination_reason |-> data.termination_reason,
                 manual_exploration_ready |-> data.manual_exploration_ready ]
    IN  IF address \in DOMAIN rows
        THEN [ rows EXCEPT ![address] = [ row EXCEPT !.depth_from_hack = rows[address].depth_from_hack ] ]
        ELSE (address :> row) @@ rows

\* rows of graph_edges of one incident; a row with the same
\* (from, to, transaction_hash) is left alone
insert_graph_edge(rows, data) ==
    IF \E r \in rows : /\ r.from_address = data.from /\ r.to_address = data.to
                       /\ r.transaction_hash = data.transaction_hash
    THEN rows
    ELSE rows \cup { [ from_address |-> data.from, to_address |-> data.to,
                       transaction_hash |-> data.transaction_hash,
                       value_eth |-> data.value_eth,
                       priority_score |-> data.priority_score,
                       filter_reason |-> data.filter_reason ] }

---------------------------------------------------------------------------
(* State *)

\* the start requests of one behaviour; a task is named after the request
\* that spawned it
RequestIds == { 1, 2 }

\* GraphProcessingOptions as the request layer hands them to start_job
NoOptions == [ given |-> FALSE, max_depth |-> None, max_api_calls |-> None ]
SmallOptions == [ given |-> TRUE, max_depth |-> 2, max_api_calls |-> 1 ]

NoJob == [ present |-> FALSE, status |-> "None", options |-> NoOptions ]

IdleRequest ==
    [ pc |-> "idle", incident_id |-> "None", options |-> NoOptions, wake |-> None,
      result |-> "None", error_code |-> "None", existing_job_id |-> "None" ]

NoTask ==
    [ pc |-> "none", job_id |-> "None", cancelled |-> FALSE, raised |-> FALSE,
      e |-> EmptyEngine, persist |-> 0, spawned_at |-> None, error |-> "None" ]

IdleShutdown ==
    [ pc |-> "idle", size |-> 0, pos |-> 0, waiting |-> 0, client_closed |-> FALSE ]

\* what get_job_status returns: None, or the dict of _build_status_response
\* (a key the dict does not hold is "None")
NoResponse ==
    [ found |-> FALSE, status |-> "None", job_id |-> "None", percentage |-> None,
      current_step |-> "None", results |-> NoResults, error_code |-> "None",
      message |-> "None", partial_results |-> NoPartial ]

IdleStatusCall == [ pc |-> "idle", job_id |-> "None", response |-> NoResponse ]

\* no entry of EtherscanService.cache under the key of an address (the
\* other parameters of the txlist request are the same in every call)
NoEntry == [ data |-> << >>, timestamp |-> None ]

\* no call of a pure operation is made
NoProbe == [ pc |-> "none" ]

InitCommon ==
    /\ now = 1
    /\ cache = [ a \in Addresses |-> NoEntry ]
    /\ requests = [ r \in RequestIds |-> IdleRequest ]
    /\ active_jobs = [ i \in IncidentIds |-> NoJob ]
    /\ job_tasks = << >>
    /\ last_job_start = None
    /\ tasks = [ r \in RequestIds |-> NoTask ]
    /\ incident_graphs = [ i \in IncidentIds |-> NoRow ]
    /\ graph_nodes = [ i \in IncidentIds |-> << >> ]
    /\ graph_edges = [ i \in IncidentIds |-> {} ]
    /\ sd = IdleShutdown
    /\ status_call = IdleStatusCall

\* the service with a start request per request id, default options
Init ==
    /\ InitCommon
    /\ chain \in CtlWorlds
    /\ quota = Cardinality(RequestIds)
    /\ opt_choices = { NoOptions }
    /\ settings = limits
    /\ probe = NoProbe
    /\ faults = 0

---------------------------------------------------------------------------
(* JobManager.start_job *)

\* a start request arrives: start_job is called and awaits get_graph_status
Arrive(r, i, o) ==
    /\ quota > 0
    /\ sd.pc = "idle"
    /\ requests[r].pc = "idle"
    /\ \A q \in RequestIds : q < r => requests[q].pc # "idle"
    /\ requests' = [ requests EXCEPT ![r] = [ @ EXCEPT !.pc = "get_status",
                                                       !.incident_id = i, !.options = o ] ]
    /\ quota' = quota - 1
    /\ UNCHANGED << probe, settings, status_call, now, chain, cache, opt_choices, active_jobs, job_tasks, last_job_start, tasks,
                    incident_graphs, graph_nodes, graph_edges, faults, sd >>

\* a test that lets a pending record pass
already_processing_running_only(existing_status) ==
    existing_status.exists /\ existing_status.status \in { "running" }

\* the single-flight test on the row get_graph_status returned
already_processing(existing_status) ==
    existing_status.exists /\ existing_status.status \in { "pending", "running" }

\* the rate limiting check: the seconds to sleep, 0 for none
rate_limit_sleep(last, t) ==
    IF Truthy(last) /\ t - last < min_job_interval
    THEN min_job_interval - (t - last)
    ELSE 0

\* get_graph_status has returned: the conflict answer, or the rate check
StartCheck(r) ==
    /\ requests[r].pc = "get_status"
    /\ LET existing_status == get_graph_status(requests[r].incident_id)
           delay == rate_limit_sleep(last_job_start, now)
       IN  requests' = [ requests EXCEPT ![r] =
             IF already_processing(existing_status)
             THEN [ @ EXCEPT !.pc = "done", !.result = "conflict",
                             !.error_code = "ALREADY_PROCESSING",
                             !.existing_job_id = requests[r].incident_id ]
             ELSE IF delay > 0
             THEN [ @ EXCEPT !.pc = "sleep", !.wake = now + delay ]
             ELSE [ @ EXCEPT !.pc = "get_incident" ] ]
    /\ UNCHANGED << probe, settings, status_call, now, chain, cache, quota, opt_choices, active_jobs, job_tasks, last_job_start,
                    tasks, incident_graphs, graph_nodes, graph_edges, faults, sd >>

\* asyncio.sleep is over: get_incident_by_id is awaited
StartWake(r) ==
    /\ requests[r].pc = "sleep"
    /\ now >= requests[r].wake
    /\ requests' = [ requests EXCEPT ![r] = [ @ EXCEPT !.pc = "get_incident" ] ]
    /\ UNCHANGED << probe, settings, status_call, now, chain, cache, quota, opt_choices, active_jobs, job_tasks, last_job_start,
                    tasks, incident_graphs, graph_nodes, graph_edges, faults, sd >>

\* get_incident_by_id has returned: not found, or the job record is made
\* and create_incident_graph awaited
StartVerify(r) ==
    /\ requests[r].pc = "get_incident"
    /\ LET incident_id == requests[r].incident_id
       IN  IF ~ get_incident_by_id(incident_id).exists
           THEN /\ requests' = [ requests EXCEPT ![r] =
                                   [ @ EXCEPT !.pc = "done", !.result = "error",
                                              !.error_code = "INCIDENT_NOT_FOUND" ] ]
                /\ UNCHANGED active_jobs
           ELSE /\ requests' = [ requests EXCEPT ![r] = [ @ EXCEPT !.pc = "create_graph" ] ]
                /\ active_jobs' = [ active_jobs EXCEPT ![incident_id] =
                                      [ present |-> TRUE, status |-> "pending",
                                        options |-> requests[r].options ] ]
    /\ UNCHANGED << probe, settings, status_call, now, chain, cache, quota, opt_choices, job_tasks, last_job_start, tasks,
                    incident_graphs, graph_nodes, graph_edges, faults, sd >>

\* job_tasks[job_id] = task: a key the dict holds keeps its place
dict_set(d, job_id, task) ==
    IF \E k \in 1..Len(d) : d[k].job_id = job_id
    THEN [ k \in 1..Len(d) |-> IF d[k].job_id = job_id THEN [ d[k] EXCEPT !.task = task ]
                               ELSE d[k] ]
    ELSE Append(d, [ job_id |-> job_id, task |-> task ])

\* if job_id in job_tasks: del job_tasks[job_id]
dict_del(d, job_id) == SelectSeq(d, LAMBDA x : x.job_id # job_id)

\* create_incident_graph has returned: the engine is built, the task
\* created, last_job_start set, the request accepted
StartSpawn(r) ==
    /\ requests[r].pc = "create_graph"
    /\ LET job_id == requests[r].incident_id
       IN  /\ incident_graphs' = [ incident_graphs EXCEPT
                                     ![job_id] = create_incident_graph(@) ]
           /\ tasks' = [ tasks EXCEPT ![r] =
                           [ NoTask EXCEPT !.pc = "created", !.job_id = job_id,
                                           !.spawned_at = now, !.e.limits = settings ] ]
           /\ job_tasks' = dict_set(job_tasks, job_id, r)
    /\ last_job_start' = now
    /\ requests' = [ requests EXCEPT ![r] = [ @ EXCEPT !.pc = "done", !.result = "accepted" ] ]
    /\ UNCHANGED << probe, settings, status_call, now, chain, cache, quota, opt_choices, active_jobs, graph_nodes, graph_edges,
                    faults, sd >>

---------------------------------------------------------------------------
(* JobManager._process_job and GraphMappingService.process_incident *)

\* the suspension points of a task: a CancelledError is delivered at these
AwaitPcs ==
    { "set_running", "init_graph", "loop", "fetching", "progress",
      "save_results", "save_node", "save_edge", "timeout", "general_error" }
\* the suspension points that are repository writes
WritePcs ==
    { "set_running", "progress", "save_results", "save_node", "save_edge",
      "timeout", "general_error", "cancel" }

Runs(t, pc) == tasks[t].pc = pc /\ ~ tasks[t].cancelled

\* the clean-up of _process_job: both tables are keyed by job_id
cleanup_active_jobs(jobs, job_id) == [ jobs EXCEPT ![job_id] = NoJob ]
cleanup_job_tasks(d, job_id) == dict_del(d, job_id)

Finish(t) ==
    /\ active_jobs' = cleanup_active_jobs(active_jobs, tasks[t].job_id)
    /\ job_tasks' = cleanup_job_tasks(job_tasks, tasks[t].job_id)

\* the task gets its first step: update_graph_status("running") is awaited
TaskBegin(t) ==
    /\ Runs(t, "created")
    /\ tasks' = [ tasks EXCEPT ![t].pc = "set_running" ]
    /\ UNCHANGED << probe, settings, status_call, now, chain, cache, quota, opt_choices, requests, active_jobs, job_tasks,
                    last_job_start, incident_graphs, graph_nodes, graph_edges, faults, sd >>

\* the row is running; process_incident starts the clock and
\* _initialize_graph awaits its reads
SetRunning(t) ==
    /\ Runs(t, "set_running")
    /\ incident_graphs' = [ incident_graphs EXCEPT ![tasks[t].job_id] =
           update_graph_status(@, "running", 5, "initialization", "None", "None", NoPartial) ]
    /\ tasks' = [ tasks EXCEPT ![t].pc = "init_graph",
                               ![t].e.processing_start_time = now ]
    /\ UNCHANGED << probe, settings, status_call, now, chain, cache, quota, opt_choices, requests, active_jobs, job_tasks,
                    last_job_start, graph_nodes, graph_edges, faults, sd >>

\* _initialize_graph: the incident and its transaction details have been
\* read (two reads of tables the service never writes); the seeds are made
\* and _recursive_traversal entered
initialize_graph_step(task) ==
    IF ~ get_incident_by_id(task.job_id).exists
    THEN [ task EXCEPT !.pc = "general_error", !.error = "Incident not found" ]
    ELSE IF transaction_details[task.job_id] = << >>
    THEN [ task EXCEPT !.pc = "general_error", !.error = "No transaction details found" ]
    ELSE [ task EXCEPT !.pc = "loop", !.e = initialize_graph(@, task.job_id) ]

InitGraph(t) ==
    /\ Runs(t, "init_graph")
    /\ tasks' = [ tasks EXCEPT ![t] = initialize_graph_step(@) ]
    /\ UNCHANGED << probe, settings, status_call, now, chain, cache, quota, opt_choices, requests, active_jobs, job_tasks,
                    last_job_start, incident_graphs, graph_nodes, graph_edges, faults, sd >>

\* an entry of any age counts as valid
is_cache_valid_always(cache_entry, t) == TRUE

is_cache_valid(cache_entry, t) == t - cache_entry.timestamp < cache_ttl_seconds

\* _get_cached_response: an entry younger than the TTL is served
cache_hit(entries, address, t) ==
    entries[address] # NoEntry /\ is_cache_valid(entries[address], t)

\* _get_cached_response: an entry that is no longer valid is deleted
get_cached_response(entries, address, t) ==
    IF entries[address] # NoEntry /\ ~ is_cache_valid(entries[address], t)
    THEN [ entries EXCEPT ![address] = NoEntry ]
    ELSE entries

cache_response(entries, address, response, t) ==
    [ entries EXCEPT ![address] = [ data |-> response, timestamp |-> t ] ]

\* what _process_node does with the list get_account_transactions returned,
\* and the loop body after it, up to the awaited progress update
process_node_returns(task, transactions) ==
    [ task EXCEPT !.pc = "progress",
                  !.e = node_done(process_node_fetched(@, @.current_address, @.current_depth,
                                                       transactions)) ]

\* one evaluation of the while condition and of the body up to its first
\* await: the loop ends (post-processing, then update_graph_results is
\* awaited), the deadline has passed, the popped node is skipped, or the
\* popped node is fetched: from the cache at once, else by a request
recursive_traversal_head(task, t, entries) ==
    LET e == task.e
        current_address == Head(e.pending_nodes)[1]
        current_depth == Head(e.pending_nodes)[2]
        popped == [ e EXCEPT !.pending_nodes = Tail(@) ]
    IN  IF ~ traversal_continues(e)
        THEN [ task EXCEPT !.pc = "save_results", !.e = optimize_graph(e) ]
        ELSE IF timeout_reached(e, t)
        THEN [ task EXCEPT !.pc = "timeout" ]
        ELSE IF skip_node(e, current_address, current_depth)
        THEN [ task EXCEPT !.e = popped ]
        ELSE LET fetching ==
                   [ task EXCEPT !.pc = "fetching",
                                 !.e = [ popped EXCEPT
                                           !.current_address = current_address,
                                           !.current_depth = current_depth,
                                           !.address_visit_count[current_address] = @ + 1 ] ]
             IN  IF cache_hit(entries, current_address, t)
                 THEN process_node_returns(fetching, entries[current_address].data)
                 ELSE fetching

LoopHead(t) ==
    /\ Runs(t, "loop")
    /\ LET next == recursive_traversal_head(tasks[t], now, cache)
       IN  /\ tasks' = [ tasks EXCEPT ![t] = next ]
           /\ cache' = IF next.pc = "fetching"
                       THEN get_cached_response(cache, next.e.current_address, now)
                       ELSE cache
    /\ UNCHANGED << probe, settings, status_call, now, chain, quota, opt_choices, requests, active_jobs, job_tasks,
                    last_job_start, incident_graphs, graph_nodes, graph_edges, faults, sd >>

\* the request was answered: the response is cached and the node processed
FetchReturns(t) ==
    /\ Runs(t, "fetching")
    /\ cache' = cache_response(cache, tasks[t].e.current_address,
                                chain[tasks[t].e.current_address], now)
    /\ tasks' = [ tasks EXCEPT ![t] =
                    process_node_returns(@, chain[tasks[t].e.current_address]) ]
    /\ UNCHANGED << probe, settings, status_call, now, chain, quota, opt_choices, requests, active_jobs, job_tasks,
                    last_job_start, incident_graphs, graph_nodes, graph_edges, faults, sd >>

\* the request failed three times: _make_request retries EtherscanError and
\* httpx.RequestError without reraise, so what get_account_transactions
\* raises is tenacity's RetryError, which _process_node does not catch and
\* process_incident hands to _handle_general_error
\* a failure after which the node is put back at the head of the queue as
\* if it had not been taken
process_node_requeues(task) ==
    [ task EXCEPT !.pc = "loop",
                  !.e.pending_nodes = << << task.e.current_address, task.e.current_depth >> >> \o @,
                  !.e.address_visit_count[task.e.current_address] = @ - 1 ]

process_node_fails(task) ==
    [ task EXCEPT !.pc = "general_error", !.error = "RetryError" ]

FetchFails(t) ==
    /\ Runs(t, "fetching")
    /\ tasks' = [ tasks EXCEPT ![t] = process_node_fails(@) ]
    /\ UNCHANGED << probe, settings, status_call, now, chain, cache, quota, opt_choices, requests, active_jobs, job_tasks,
                    last_job_start, incident_graphs, graph_nodes, graph_edges, faults, sd >>

\* the progress update is written; back to the head of the loop
Progress(t) ==
    /\ Runs(t, "progress")
    /\ incident_graphs' = [ incident_graphs EXCEPT ![tasks[t].job_id] =
           update_graph_status(@, "running", progress_of(tasks[t].e), "recursive_traversal",
                               "None", "None", NoPartial) ]
    /\ tasks' = [ tasks EXCEPT ![t].pc = "loop" ]
    /\ UNCHANGED << probe, settings, status_call, now, chain, cache, quota, opt_choices, requests, active_jobs, job_tasks,
                    last_job_start, graph_nodes, graph_edges, faults, sd >>

\* where _persist_graph_to_database stands after `done` rows of the kind pc
persist_next(task, pc, done) ==
    LET e == task.e
    IN  IF pc = "save_node" /\ done < Len(e.nodes)
        THEN [ task EXCEPT !.pc = "save_node", !.persist = done + 1 ]
        ELSE IF pc = "save_node" /\ Len(e.edges) > 0
        THEN [ task EXCEPT !.pc = "save_edge", !.persist = 1 ]
        ELSE IF pc = "save_edge" /\ done < Len(e.edges)
        THEN [ task EXCEPT !.pc = "save_edge", !.persist = done + 1 ]
        ELSE [ task EXCEPT !.pc = "done" ]

\* the step of a task that ends it normally also cleans up
StepTo(t, next) ==
    /\ tasks' = [ tasks EXCEPT ![t] = next ]
    /\ IF next.pc = "done" THEN Finish(t) ELSE UNCHANGED << active_jobs, job_tasks >>

\* update_graph_results is written; the first node is sent
SaveResults(t) ==
    /\ Runs(t, "save_results")
    /\ incident_graphs' = [ incident_graphs EXCEPT ![tasks[t].job_id] =
           update_graph_results(@, final_results(tasks[t].e)) ]
    /\ StepTo(t, persist_next(tasks[t], "save_node", 0))
    /\ UNCHANGED << probe, settings, status_call, now, chain, cache, quota, opt_choices, requests, last_job_start,
                    graph_nodes, graph_edges, faults, sd >>

SaveNode(t) ==
    /\ Runs(t, "save_node")
    /\ LET e == tasks[t].e
           address == e.nodes[tasks[t].persist]
       IN  graph_nodes' = [ graph_nodes EXCEPT ![tasks[t].job_id] =
                              insert_graph_node(@, address, e.attr[address]) ]
    /\ StepTo(t, persist_next(tasks[t], "save_node", tasks[t].persist))
    /\ UNCHANGED << probe, settings, status_call, now, chain, cache, quota, opt_choices, requests, last_job_start,
                    incident_graphs, graph_edges, faults, sd >>

SaveEdge(t) ==
    /\ Runs(t, "save_edge")
    /\ LET e == tasks[t].e
           data == edges_in_order(e, Len(e.nodes))[tasks[t].persist]
       IN  graph_edges' = [ graph_edges EXCEPT ![tasks[t].job_id] = insert_graph_edge(@, data) ]
    /\ StepTo(t, persist_next(tasks[t], "save_edge", tasks[t].persist))
    /\ UNCHANGED << probe, settings, status_call, now, chain, cache, quota, opt_choices, requests, last_job_start,
                    incident_graphs, graph_nodes, faults, sd >>

\* _handle_timeout: the row written, the task ends
handle_timeout(row, e) ==
    update_graph_status(row, "timeout", 95, "None", "Processing timeout after 30 seconds",
                        "PROCESSING_TIMEOUT", partial_results_of(e))

Timeout(t) ==
    /\ Runs(t, "timeout")
    /\ incident_graphs' = [ incident_graphs EXCEPT ![tasks[t].job_id] =
                              handle_timeout(@, tasks[t].e) ]
    /\ StepTo(t, [ tasks[t] EXCEPT !.pc = "done" ])
    /\ UNCHANGED << probe, settings, status_call, now, chain, cache, quota, opt_choices, requests, last_job_start,
                    graph_nodes, graph_edges, faults, sd >>

\* _handle_general_error: the row written, the task ends
handle_general_error(row, error) ==
    update_graph_status(row, "error", None, "None", error, "INTERNAL_ERROR", NoPartial)

GeneralError(t) ==
    /\ Runs(t, "general_error")
    /\ incident_graphs' = [ incident_graphs EXCEPT ![tasks[t].job_id] =
                              handle_general_error(@, tasks[t].error) ]
    /\ StepTo(t, [ tasks[t] EXCEPT !.pc = "done" ])
    /\ UNCHANGED << probe, settings, status_call, now, chain, cache, quota, opt_choices, requests, last_job_start,
                    graph_nodes, graph_edges, faults, sd >>

---------------------------------------------------------------------------
(* A repository write that raises *)

\* where the exception of a failed write takes the task: out of
\* _recursive_traversal or _finalize_results into process_incident's
\* `except Exception`; out of the first write or out of a handler of
\* process_incident into _process_job's `except Exception`, which only
\* cleans up; out of the handler of CancelledError and out of the task
write_fails(task) ==
    IF task.pc \in { "progress", "save_results", "save_node", "save_edge" }
    THEN [ task EXCEPT !.pc = "general_error", !.error = "write failed" ]
    ELSE IF task.pc \in { "set_running", "timeout", "general_error" }
    THEN [ task EXCEPT !.pc = "done" ]
    ELSE [ task EXCEPT !.pc = "done", !.raised = TRUE ]

WriteFails(t) ==
    /\ faults > 0
    /\ tasks[t].pc \in WritePcs
    /\ tasks[t].pc = "cancel" \/ ~ tasks[t].cancelled
    /\ faults' = faults - 1
    /\ tasks' = [ tasks EXCEPT ![t] = write_fails(@) ]
    /\ IF write_fails(tasks[t]).pc = "done" /\ ~ write_fails(tasks[t]).raised
       THEN Finish(t)
       ELSE UNCHANGED << active_jobs, job_tasks >>
    /\ UNCHANGED << probe, settings, status_call, now, chain, cache, quota, opt_choices, requests, last_job_start,
                    incident_graphs, graph_nodes, graph_edges, sd >>

---------------------------------------------------------------------------
(* JobManager.shutdown and the cancellation of a task *)

\* the for loop over job_tasks.items() from the item after pos, up to its
\* next await: the iterator raises RuntimeError when the dict has not the
\* size it had when the loop began; a task that is done is passed over; a
\* task that is not is cancelled and awaited; after the last item
\* etherscan_service.close() is awaited
RECURSIVE shutdown_scan(_, _, _, _)
shutdown_scan(d, size, pos, ts) ==
    IF Len(d) # size
    THEN [ pc |-> "failed", pos |-> pos, waiting |-> 0 ]
    ELSE IF pos = size
    THEN [ pc |-> "closing", pos |-> pos, waiting |-> 0 ]
    ELSE IF ts[d[pos + 1].task].pc = "done"
    THEN shutdown_scan(d, size, pos + 1, ts)
    ELSE [ pc |-> "waiting", pos |-> pos + 1, waiting |-> d[pos + 1].task ]

\* task.cancel()
cancel(ts, scan) ==
    IF scan.pc = "waiting" THEN [ ts EXCEPT ![scan.waiting].cancelled = TRUE ] ELSE ts

\* the lifespan ends: shutdown runs once the start requests are answered
ShutdownBegin ==
    /\ sd.pc = "idle"
    /\ \A r \in RequestIds : requests[r].pc \in { "idle", "done" }
    /\ LET scan == shutdown_scan(job_tasks, Len(job_tasks), 0, tasks)
       IN  /\ sd' = [ sd EXCEPT !.pc = scan.pc, !.size = Len(job_tasks),
                                !.pos = scan.pos, !.waiting = scan.waiting ]
           /\ tasks' = cancel(tasks, scan)
    /\ UNCHANGED << probe, settings, status_call, now, chain, cache, quota, opt_choices, requests, active_jobs, job_tasks,
                    last_job_start, incident_graphs, graph_nodes, graph_edges, faults >>

\* `await task` is over: an exception of the task other than CancelledError
\* ends shutdown, else the loop goes on
ShutdownResume ==
    /\ sd.pc = "waiting"
    /\ tasks[sd.waiting].pc = "done"
    /\ LET scan == IF tasks[sd.waiting].raised
                   THEN [ pc |-> "failed", pos |-> sd.pos, waiting |-> 0 ]
                   ELSE shutdown_scan(job_tasks, sd.size, sd.pos, tasks)
       IN  /\ sd' = [ sd EXCEPT !.pc = scan.pc, !.pos = scan.pos, !.waiting = scan.waiting ]
           /\ tasks' = cancel(tasks, scan)
    /\ UNCHANGED << probe, settings, status_call, now, chain, cache, quota, opt_choices, requests, active_jobs, job_tasks,
                    last_job_start, incident_graphs, graph_nodes, graph_edges, faults >>

\* etherscan_service.close() has closed the client
ShutdownClose ==
    /\ sd.pc = "closing"
    /\ sd' = [ sd EXCEPT !.pc = "done", !.client_closed = TRUE ]
    /\ UNCHANGED << probe, settings, status_call, now, chain, cache, quota, opt_choices, requests, active_jobs, job_tasks,
                    last_job_start, tasks, incident_graphs, graph_nodes, graph_edges,
                    faults >>

\* a task cancelled before its first step: CancelledError is thrown into a
\* coroutine that has not entered its try statement, and the task ends
CancelUnstarted(t) ==
    /\ tasks[t].cancelled
    /\ tasks[t].pc = "created"
    /\ tasks' = [ tasks EXCEPT ![t].pc = "done" ]
    /\ UNCHANGED << probe, settings, status_call, now, chain, cache, quota, opt_choices, requests, active_jobs, job_tasks,
                    last_job_start, incident_graphs, graph_nodes, graph_edges, faults, sd >>

\* CancelledError is thrown at the await the task is suspended at; derived
\* from BaseException, it passes the handlers of process_incident and is
\* caught in _process_job, which awaits update_graph_status
CancelDeliver(t) ==
    /\ tasks[t].cancelled
    /\ tasks[t].pc \in AwaitPcs
    /\ tasks' = [ tasks EXCEPT ![t].pc = "cancel" ]
    /\ UNCHANGED << probe, settings, status_call, now, chain, cache, quota, opt_choices, requests, active_jobs, job_tasks,
                    last_job_start, incident_graphs, graph_nodes, graph_edges, faults, sd >>

\* the handler of CancelledError in _process_job: the row written, the
\* clean-up done
handle_cancelled(row) ==
    update_graph_status(row, "error", None, "None", "Job was cancelled", "JOB_CANCELLED",
                        NoPartial)

CancelHandler(t) ==
    /\ tasks[t].pc = "cancel"
    /\ incident_graphs' = [ incident_graphs EXCEPT ![tasks[t].job_id] = handle_cancelled(@) ]
    /\ StepTo(t, [ tasks[t] EXCEPT !.pc = "done" ])
    /\ UNCHANGED << probe, settings, status_call, now, chain, cache, quota, opt_choices, requests, last_job_start,
                    graph_nodes, graph_edges, faults, sd >>

---------------------------------------------------------------------------
(* JobManager.get_job_status *)

\* the response dict: the status and, by status, the progress block, the
\* results, the error block, or the message with the partial results
build_status_response(job_id, graph_status) ==
    LET response == [ NoResponse EXCEPT !.found = TRUE, !.status = graph_status.status,
                                        !.job_id = job_id ]
    IN  IF graph_status.status = "running"
        THEN IF Truthy(graph_status.progress_percentage)
             THEN [ response EXCEPT !.percentage = graph_status.progress_percentage,
                                    !.current_step = graph_status.current_step ]
             ELSE response
        ELSE IF graph_status.status = "completed"
        THEN [ response EXCEPT !.results = graph_status.results ]
        ELSE IF graph_status.status = "error"
        THEN [ response EXCEPT !.error_code = graph_status.error_code,
                               !.message = graph_status.error_message,
                               !.partial_results = graph_status.partial_results ]
        ELSE IF graph_status.status = "timeout"
        THEN [ response EXCEPT !.message = graph_status.error_message,
                               !.partial_results = graph_status.partial_results ]
        ELSE response

\* get_job_status is called: a job in active_jobs has its row read first
StatusArrive(job_id) ==
    /\ status_call.pc = "idle"
    /\ status_call' = [ status_call EXCEPT !.job_id = job_id,
                           !.pc = IF active_jobs[job_id].present THEN "read_active"
                                  ELSE "read_db" ]
    /\ UNCHANGED << probe, settings, now, chain, cache, quota, opt_choices, requests, active_jobs,
                    job_tasks, last_job_start, tasks, incident_graphs, graph_nodes,
                    graph_edges, faults, sd >>

\* get_graph_status has returned: the row found is answered, else the row
\* is read again (a job in active_jobs) or the answer is None
get_job_status_step(call, graph_status) ==
    IF graph_status.exists
    THEN [ call EXCEPT !.pc = "done",
                       !.response = build_status_response(call.job_id, graph_status) ]
    ELSE IF call.pc = "read_active"
    THEN [ call EXCEPT !.pc = "read_db" ]
    ELSE [ call EXCEPT !.pc = "done", !.response = NoResponse ]

StatusRead ==
    /\ status_call.pc \in { "read_active", "read_db" }
    /\ status_call' = get_job_status_step(status_call, get_graph_status(status_call.job_id))
    /\ UNCHANGED << probe, settings, now, chain, cache, quota, opt_choices, requests, active_jobs,
                    job_tasks, last_job_start, tasks, incident_graphs, graph_nodes,
                    graph_edges, faults, sd >>

---------------------------------------------------------------------------
(* The clock and the specifications *)

\* nothing is left to read the clock once every coroutine has ended
Quiescent ==
    /\ quota = 0
    /\ \A r \in RequestIds : requests[r].pc \in { "idle", "done" }
    /\ \A t \in RequestIds : tasks[t].pc \in { "none", "done" }

Tick ==
    /\ now < MaxTime
    /\ ~ Quiescent
    /\ now' = now + 1
    /\ UNCHANGED << probe, settings, status_call, chain, cache, quota, opt_choices, requests, active_jobs, job_tasks,
                    last_job_start, tasks, incident_graphs, graph_nodes, graph_edges,
                    faults, sd >>

StartStep ==
    \/ \E r \in RequestIds, i \in IncidentIds, o \in opt_choices : Arrive(r, i, o)
    \/ \E r \in RequestIds : StartCheck(r)
    \/ \E r \in RequestIds : StartVerify(r)
    \/ \E r \in RequestIds : StartSpawn(r)

JobStep ==
    \/ \E t \in RequestIds : TaskBegin(t)
    \/ \E t \in RequestIds : SetRunning(t)
    \/ \E t \in RequestIds : InitGraph(t)
    \/ \E t \in RequestIds : LoopHead(t)
    \/ \E t \in RequestIds : FetchReturns(t)
    \/ \E t \in RequestIds : FetchFails(t)
    \/ \E t \in RequestIds : Progress(t)
    \/ \E t \in RequestIds : SaveResults(t)
    \/ \E t \in RequestIds : SaveNode(t)
    \/ \E t \in RequestIds : SaveEdge(t)
    \/ \E t \in RequestIds : Timeout(t)
    \/ \E t \in RequestIds : GeneralError(t)

\* _process_job tasks never cancelled, repository writes that succeed
Next ==
    \/ StartStep
    \/ \E r \in RequestIds : StartWake(r)
    \/ JobStep
    \/ Tick

\* the controller under two start requests and the jobs they spawn
Spec == Init /\ [][Next]_vars

\* one job over every chain, with and without options in its start request
InitEngine ==
    /\ InitCommon
    /\ chain \in Worlds
    /\ quota = 1
    /\ opt_choices = { NoOptions, SmallOptions }
    /\ settings = limits
    /\ probe = NoProbe
    /\ faults = 0

NextEngine ==
    \/ StartStep
    \/ JobStep
    \/ Tick

SpecEngine == InitEngine /\ [][NextEngine]_vars

\* the positions of a task inside _recursive_traversal
InTraversal == { "loop", "fetching", "progress" }

\* a step of task t
TaskSteps(t) == tasks'[t] # tasks[t]

\* the same, with weak fairness of the steps of a task inside the traversal
\* (they are enabled by the position alone): the code between two awaits
\* runs and every awaited call returns or raises; nothing is assumed of
\* the clock
SpecEngineFair ==
    SpecEngine /\ \A t \in RequestIds :
                    []<>(tasks[t].pc \notin InTraversal) \/ []<><<TaskSteps(t)>>_vars

\* one job, one of whose repository writes raises
InitFault ==
    /\ InitCommon
    /\ chain \in CtlWorlds
    /\ quota = 1
    /\ opt_choices = { NoOptions }
    /\ settings = limits
    /\ probe = NoProbe
    /\ faults = 1

NextFault ==
    \/ StartStep
    \/ JobStep
    \/ \E t \in RequestIds : WriteFails(t)
    \/ Tick

SpecFault == InitFault /\ [][NextFault]_vars

\* the service shut down while its jobs run
ShutdownStep ==
    \/ ShutdownBegin
    \/ ShutdownResume
    \/ ShutdownClose
    \/ \E t \in RequestIds : CancelUnstarted(t)
    \/ \E t \in RequestIds : CancelDeliver(t)
    \/ \E t \in RequestIds : CancelHandler(t)

NextShutdown ==
    \/ Next
    \/ ShutdownStep

InitShutdown ==
    /\ InitCommon
    /\ chain \in { WorldExchange }
    /\ quota = Cardinality(RequestIds)
    /\ opt_choices = { NoOptions }
    /\ settings = limits
    /\ probe = NoProbe
    /\ faults = 0

SpecShutdown == InitShutdown /\ [][NextShutdown]_vars

\* one job and one status query, at any moment of the job or without one
StatusStep ==
    \/ \E j \in IncidentIds : StatusArrive(j)
    \/ StatusRead

NextStatus ==
    \/ StartStep
    \/ JobStep
    \/ StatusStep
    \/ Tick

InitStatus ==
    /\ InitCommon
    /\ chain \in CtlWorlds
    /\ quota = 1
    /\ opt_choices = { NoOptions }
    /\ settings = limits
    /\ probe = NoProbe
    /\ faults = 0

SpecStatus == InitStatus /\ [][NextStatus]_vars

\* one job under the configuration as bounded and under max_depth = 1
InitConfig ==
    /\ InitCommon
    /\ chain \in { WorldSeedOnly, WorldChain, WorldFan }
    /\ quota = 1
    /\ opt_choices = { NoOptions }
    /\ settings \in { limits, ShallowLimits, NarrowLimits }
    /\ probe = NoProbe
    /\ faults = 0

SpecConfig == InitConfig /\ [][NextEngine]_vars

\* an incident processed again later: one job, then, longer after it than
\* the cache keeps a response, a second start request, the addresses having
\* made new transactions or not
\* WorldExchange after h has made two larger transfers at a higher gas price
WorldExchangeLater ==
    [ NoTxs EXCEPT !["h"] = << RawTx("h", "bin1", 50 * UnitsPerEth, "t1", 10),
                               RawTx("h", "a", 60 * UnitsPerEth, "t2", 30),
                               RawTx("h", "b", 70 * UnitsPerEth, "t3", 30) >> ]
RerunWorlds == { WorldSeedOnly, WorldExchange, WorldExchangeLater }

\* every list of c1 is the beginning of the list c2 has (sort = "asc")
Grows(c1, c2) ==
    \A a \in Addresses :
        Len(c1[a]) <= Len(c2[a]) /\ SubSeq(c2[a], 1, Len(c1[a])) = c1[a]

InitRerun ==
    /\ InitCommon
    /\ chain \in RerunWorlds
    /\ quota = 1
    /\ opt_choices = { NoOptions }
    /\ settings = limits
    /\ probe = NoProbe
    /\ faults = 0

Later ==
    /\ Quiescent
    /\ requests[1].pc = "done"
    /\ \E r \in RequestIds : requests[r].pc = "idle"
    /\ now' = now + cache_ttl_seconds
    /\ chain' \in { c \in RerunWorlds : Grows(chain, c) }
    /\ quota' = 1
    /\ UNCHANGED << probe, settings, status_call, cache, opt_choices, requests, active_jobs,
                    job_tasks, last_job_start, tasks, incident_graphs, graph_nodes,
                    graph_edges, faults, sd >>

NextRerun ==
    \/ StartStep
    \/ JobStep
    \/ Tick
    \/ Later

SpecRerun == InitRerun /\ [][NextRerun]_vars

---------------------------------------------------------------------------
(* AddressClassifier.classify_address called on its own *)

\* the arguments: around every threshold of the rules
ClassifyAddresses == { "a", "bin1", "uni" }
TransactionCounts == { 0, 99, 100, 1000, 1001, 10000, 10001 }
DailyTxCounts == { 0, 4, 5, 100, 101, 500, 501 }
TimesSeen == { 1, 2, 3 }

InitClassify ==
    /\ InitCommon
    /\ chain = NoTxs
    /\ quota = 0
    /\ opt_choices = { NoOptions }
    /\ settings = limits
    /\ faults = 0
    /\ probe \in [ pc : { "classify" }, address : ClassifyAddresses,
                    transaction_count : TransactionCounts, daily_tx_count : DailyTxCounts,
                    times_seen_in_graph : TimesSeen, result : { Classification("None", 0, NoDetails) } ]

Classify ==
    /\ probe.pc = "classify"
    /\ probe' = [ probe EXCEPT !.pc = "classified",
                     !.result = classify_address(probe.address, probe.transaction_count,
                                                 probe.daily_tx_count,
                                                 probe.times_seen_in_graph) ]
    /\ UNCHANGED << settings, status_call, now, chain, cache, quota, opt_choices, requests,
                    active_jobs, job_tasks, last_job_start, tasks, incident_graphs,
                    graph_nodes, graph_edges, faults, sd >>

SpecClassify == InitClassify /\ [][Classify]_vars

---------------------------------------------------------------------------
(* GraphMappingService._apply_filtering_pipeline called on its own *)

\* what txlist may hold for the node h: transfers of 0.10, 0.06, 0.04 and
\* 2 ETH out of h, and one into it
FilterPool ==
    { RawTx("h", "a", UnitsPerEth \div 10, "x10", 10),
      RawTx("h", "b", (6 * UnitsPerEth) \div 100, "x06", 10),
      RawTx("h", "a", (4 * UnitsPerEth) \div 100, "x04", 10),
      RawTx("h", "b", 2 * UnitsPerEth, "x2", 10),
      RawTx("a", "h", 5 * UnitsPerEth, "xin", 10) }
MaxFilterLen == 3
FilterLists == UNION { [ 1..n -> FilterPool ] : n \in 0..MaxFilterLen }
\* the amount stolen in the incident the engine works on, in ETH
StolenAmounts == { 5, 10, 50, 100, 200 }

InitFilter ==
    /\ InitCommon
    /\ chain = NoTxs
    /\ quota = 0
    /\ opt_choices = { NoOptions }
    /\ settings = limits
    /\ faults = 0
    /\ probe \in [ pc : { "filter" }, stolen_amount : StolenAmounts,
                    transactions : FilterLists, result : { << >> } ]

\* the pipeline run for the node h of a new engine
Filter ==
    /\ probe.pc = "filter"
    /\ probe' = [ probe EXCEPT !.pc = "filtered",
                     !.result = apply_filtering_pipeline(EmptyEngine, probe.transactions,
                                                         "h", 1) ]
    /\ UNCHANGED << settings, status_call, now, chain, cache, quota, opt_choices, requests,
                    active_jobs, job_tasks, last_job_start, tasks, incident_graphs,
                    graph_nodes, graph_edges, faults, sd >>

SpecFilter == InitFilter /\ [][Filter]_vars

---------------------------------------------------------------------------
(* EtherscanService.get_account_transactions called on its own: one caller *)
(* makes one call after the other while the chain grows and time passes    *)

CacheAddresses == { "h", "a" }
CacheWorlds == { WorldSeedOnly, WorldChain, WorldFan }
\* the calls of one behaviour
MaxCacheCalls == 3
\* the clock of these behaviours stops here
MaxCacheTime == 1300
\* the time that passes at once: just under, at and just over the TTL
Elapses == { cache_ttl_seconds - 1, cache_ttl_seconds, cache_ttl_seconds + 1 }

NoReturn == [ returned |-> FALSE, result |-> << >> ]

InitCache ==
    /\ InitCommon
    /\ chain \in CacheWorlds
    /\ quota = 0
    /\ opt_choices = { NoOptions }
    /\ settings = limits
    /\ faults = 0
    /\ probe = [ pc |-> "idle", address |-> "None", served |-> "none", result |-> << >>,
                 calls |-> 0, upstream |-> 0, last |-> [ a \in CacheAddresses |-> NoReturn ] ]

\* get_account_transactions(address) up to its await: a valid entry is
\* returned at once, else the request is made
CacheCall(address) ==
    /\ probe.pc = "idle"
    /\ probe.calls < MaxCacheCalls
    /\ cache' = get_cached_response(cache, address, now)
    /\ probe' = IF cache_hit(cache, address, now)
                THEN [ probe EXCEPT !.address = address, !.calls = @ + 1, !.served = "cache",
                                    !.result = cache[address].data,
                                    !.last[address] = [ returned |-> TRUE,
                                                        result |-> cache[address].data ] ]
                ELSE [ probe EXCEPT !.pc = "request", !.address = address, !.calls = @ + 1,
                                    !.upstream = @ + 1 ]
    /\ UNCHANGED << settings, status_call, now, chain, quota, opt_choices, requests,
                    active_jobs, job_tasks, last_job_start, tasks, incident_graphs,
                    graph_nodes, graph_edges, faults, sd >>

\* _make_request has returned: the response is cached and its result returned
CacheResponds ==
    /\ probe.pc = "request"
    /\ cache' = cache_response(cache, probe.address, chain[probe.address], now)
    /\ probe' = [ probe EXCEPT !.pc = "idle", !.served = "upstream",
                               !.result = chain[probe.address],
                               !.last[probe.address] = [ returned |-> TRUE,
                                                         result |-> chain[probe.address] ] ]
    /\ UNCHANGED << settings, status_call, now, chain, quota, opt_choices, requests,
                    active_jobs, job_tasks, last_job_start, tasks, incident_graphs,
                    graph_nodes, graph_edges, faults, sd >>

\* _make_request has raised: nothing is cached
CacheRequestFails ==
    /\ probe.pc = "request"
    /\ probe' = [ probe EXCEPT !.pc = "idle", !.served = "raised", !.result = << >> ]
    /\ UNCHANGED << settings, status_call, now, chain, cache, quota, opt_choices, requests,
                    active_jobs, job_tasks, last_job_start, tasks, incident_graphs,
                    graph_nodes, graph_edges, faults, sd >>

\* the addresses make new transactions
ChainChanges ==
    /\ chain' \in CacheWorlds \ { chain }
    /\ UNCHANGED << probe, settings, status_call, now, cache, quota, opt_choices, requests,
                    active_jobs, job_tasks, last_job_start, tasks, incident_graphs,
                    graph_nodes, graph_edges, faults, sd >>

Elapse(d) ==
    /\ now + d <= MaxCacheTime
    /\ now' = now + d
    /\ UNCHANGED << probe, settings, status_call, chain, cache, quota, opt_choices, requests,
                    active_jobs, job_tasks, last_job_start, tasks, incident_graphs,
                    graph_nodes, graph_edges, faults, sd >>

NextCache ==
    \/ \E a \in CacheAddresses : CacheCall(a)
    \/ CacheResponds
    \/ CacheRequestFails
    \/ ChainChanges
    \/ \E d \in Elapses : Elapse(d)

SpecCache == InitCache /\ [][NextCache]_vars

---------------------------------------------------------------------------
(* Properties *)

Row(t) == incident_graphs[tasks[t].job_id]
Spawned(t) == tasks[t].pc # "none"
Live(t) == tasks[t].pc \notin { "none", "done" }
LiveTasks(i) == { t \in RequestIds : Live(t) /\ tasks[t].job_id = i }
Processing == { "pending", "running" }

\* C1: at no instant are two engine tasks of the same incident pending or
\* running (so that of two overlapping start requests for one incident at
\* most one is accepted)
C1_SingleFlight == \A i \in IncidentIds : Cardinality(LiveTasks(i)) <= 1

\* C2: a start_job that reads a graph record with status pending or running
\* returns conflict / ALREADY_PROCESSING with existing_job_id = incident_id,
\* and that step spawns no task and changes neither the record, the job
\* tables nor last_job_start
C2_ConflictWhileProcessing ==
    [][ \A r \in RequestIds :
          ( /\ requests[r].pc = "get_status"
            /\ requests'[r].pc # "get_status"
            /\ incident_graphs[requests[r].incident_id].exists
            /\ incident_graphs[requests[r].incident_id].status \in Processing )
          => ( /\ requests'[r].pc = "done"
               /\ requests'[r].result = "conflict"
               /\ requests'[r].error_code = "ALREADY_PROCESSING"
               /\ requests'[r].existing_job_id = requests[r].incident_id
               /\ tasks' = tasks
               /\ incident_graphs' = incident_graphs
               /\ active_jobs' = active_jobs
               /\ job_tasks' = job_tasks
               /\ last_job_start' = last_job_start ) ]_vars

\* a start request was answered with the conflict while a job of its
\* incident was pending or running
C2_Witness ==
    \E r \in RequestIds :
        /\ requests[r].result = "conflict"
        /\ requests[r].existing_job_id = requests[r].incident_id
        /\ LiveTasks(requests[r].incident_id) # {}

\* C3: in every reachable state of a job, api_calls_used <= max_api_calls
C3_BudgetRespected ==
    \A t \in RequestIds : tasks[t].e.api_calls_used <= limits.max_api_calls

\* the budget is spent while nodes are still pending: it ended the loop
C3_Witness ==
    \E t \in RequestIds :
        /\ tasks[t].e.api_calls_used = limits.max_api_calls
        /\ tasks[t].e.pending_nodes # << >>
        /\ tasks[t].pc = "save_results"

\* C4: a job started with options.max_api_calls = n never has
\* api_calls_used > n, and a job started with options.max_depth = d never
\* has a node deeper than d
C4_OptionsEnforced ==
    \A t \in RequestIds :
        (Spawned(t) /\ requests[t].options.given)
        => ( /\ tasks[t].e.api_calls_used <= requests[t].options.max_api_calls
             /\ \A a \in Range(tasks[t].e.nodes) :
                    tasks[t].e.attr[a].depth_from_hack <= requests[t].options.max_depth )

\* C5: no step of a start_job for an incident the repository does not have
\* creates or changes a graph record, spawns a task, or touches
\* active_jobs, job_tasks or last_job_start, and its answer is
\* error / INCIDENT_NOT_FOUND
C5_UnknownIncident ==
    [][ \A r \in RequestIds :
          ( /\ requests'[r] # requests[r]
            /\ requests'[r].incident_id \notin incidents )
          => ( /\ tasks' = tasks
               /\ incident_graphs' = incident_graphs
               /\ graph_nodes' = graph_nodes
               /\ graph_edges' = graph_edges
               /\ active_jobs' = active_jobs
               /\ job_tasks' = job_tasks
               /\ last_job_start' = last_job_start
               /\ requests'[r].pc = "done"
                    => ( /\ requests'[r].result = "error"
                         /\ requests'[r].error_code = "INCIDENT_NOT_FOUND" ) ) ]_vars

\* a start request for the missing incident was answered
C5_Witness ==
    \E r \in RequestIds :
        /\ requests[r].incident_id \notin incidents
        /\ requests[r].pc = "done"
        /\ requests[r].error_code = "INCIDENT_NOT_FOUND"
        /\ ~ Spawned(r)

\* C6: the instants at which two accepted starts spawned their tasks are at
\* least min_job_interval apart
C6_StartRateFloor ==
    \A t1, t2 \in RequestIds :
        (t1 # t2 /\ Spawned(t1) /\ Spawned(t2))
        => \/ tasks[t1].spawned_at - tasks[t2].spawned_at >= min_job_interval
           \/ tasks[t2].spawned_at - tasks[t1].spawned_at >= min_job_interval

\* C7: once a cancelled task has ended, the record of its job has status
\* cancelled and error_code JOB_CANCELLED
C7_CancelledRecord ==
    \A t \in RequestIds :
        (tasks[t].cancelled /\ tasks[t].pc = "done")
        => (Row(t).status = "cancelled" /\ Row(t).error_code = "JOB_CANCELLED")

\* C8: the write that follows a deadline found passed at the loop head
\* leaves the record with status timeout, error_code PROCESSING_TIMEOUT and
\* partial_results holding the node and edge counts of the working graph,
\* total_nodes being at least 2
C8_TimeoutRecord ==
    [][ \A t \in RequestIds :
          (tasks[t].pc = "timeout" /\ tasks'[t].pc = "done")
          => ( /\ incident_graphs'[tasks[t].job_id].status = "timeout"
               /\ incident_graphs'[tasks[t].job_id].error_code = "PROCESSING_TIMEOUT"
               /\ incident_graphs'[tasks[t].job_id].partial_results.present
               /\ incident_graphs'[tasks[t].job_id].partial_results.total_nodes
                    = Len(tasks[t].e.nodes)
               /\ incident_graphs'[tasks[t].job_id].partial_results.total_edges
                    = Len(tasks[t].e.edges)
               /\ incident_graphs'[tasks[t].job_id].partial_results.total_nodes >= 2 ) ]_vars

\* a job ended by the deadline after it had expanded a node
C8_Witness ==
    \E t \in RequestIds :
        /\ tasks[t].pc = "done"
        /\ Row(t).status = "timeout"
        /\ Row(t).partial_results.total_nodes > 2
        /\ tasks[t].e.api_calls_used > 0

\* the step in which the request of task t is answered
FetchReturned(t) == tasks[t].pc = "fetching" /\ cache' # cache

\* C9: when get_account_transactions returns after the deadline has
\* passed, nothing is inserted into the graph and the job goes to its
\* timeout
C9_DeadlineAfterFetch ==
    [][ \A t \in RequestIds :
          (FetchReturned(t) /\ timeout_reached(tasks[t].e, now))
          => ( /\ tasks'[t].pc = "timeout"
               /\ tasks'[t].e.nodes = tasks[t].e.nodes
               /\ tasks'[t].e.edges = tasks[t].e.edges ) ]_vars

\* C10: once the task of an accepted job has finished, the record is
\* neither pending nor running, and carries an error_code and a message
\* unless it is completed
C10_TerminalRecord ==
    \A t \in RequestIds :
        tasks[t].pc = "done"
        => ( /\ Row(t).status \notin Processing
             /\ Row(t).status # "completed"
                  => (Row(t).error_code # "None" /\ Row(t).error_message # "None") )


\* the step in which get_job_status returns
StatusReturned == status_call.pc # "done" /\ status_call'.pc = "done"
NonSuccess == { "timeout", "error", "cancelled" }

\* C11: no step of get_job_status changes a record or the job tables; it
\* answers not-found when there is no record, and for a record with status
\* timeout, error or cancelled its response carries the status, the
\* error_code and the message of the record
C11_StatusPureRead ==
    [][ status_call' # status_call
        => ( /\ incident_graphs' = incident_graphs
             /\ graph_nodes' = graph_nodes
             /\ graph_edges' = graph_edges
             /\ active_jobs' = active_jobs
             /\ job_tasks' = job_tasks
             /\ StatusReturned
                  => LET row == incident_graphs[status_call.job_id]
                         response == status_call'.response
                     IN  /\ ~ row.exists => ~ response.found
                         /\ (row.exists /\ row.status \in NonSuccess)
                              => ( /\ response.found
                                   /\ response.status = row.status
                                   /\ response.error_code = row.error_code
                                   /\ response.message = row.error_message ) ) ]_vars


Depth(e, a) == e.attr[a].depth_from_hack

\* every edge of the working graph leads at most one level down
DepthMonotone(e) ==
    \A i \in 1..Len(e.edges) : Depth(e, e.edges[i].to) <= Depth(e, e.edges[i].from) + 1

\* a node that a step adds to a graph with nodes lies one level below the
\* source of every edge into it
DiscoveredOneBelow(e, e2) ==
    \A a \in Range(e2.nodes) \ Range(e.nodes) :
        \A i \in 1..Len(e2.edges) :
            e2.edges[i].to = a => Depth(e2, a) = Depth(e2, e2.edges[i].from) + 1

\* C12: in every state, during expansion and after post-processing, every
\* edge e has depth(e.to) <= depth(e.from) + 1, with equality for the edges
\* into a node discovered by the step that added them
C12_DepthMonotone ==
    [][ \A t \in RequestIds :
          /\ DepthMonotone(tasks'[t].e)
          /\ tasks[t].e.nodes # << >> => DiscoveredOneBelow(tasks[t].e, tasks'[t].e) ]_vars


\* C13: no node of the working graph has depth_from_hack > max_depth, and
\* the node being fetched, or fetched last, lies above max_depth at the
\* depth the graph holds for it
C13_DepthBound ==
    \A t \in RequestIds :
        LET e == tasks[t].e
        IN  /\ \A a \in Range(e.nodes) : Depth(e, a) <= settings.max_depth
            /\ e.current_depth # None => e.current_depth < settings.max_depth
            /\ tasks[t].pc = "fetching" => Depth(e, e.current_address) = e.current_depth

\* the traversal ran dry with a node at max_depth that was never queued
C13_Witness ==
    \E t \in RequestIds :
        LET e == tasks[t].e
        IN  /\ tasks[t].pc = "loop"
            /\ e.pending_nodes = << >>
            /\ \E a \in Range(e.nodes) :
                   Depth(e, a) = settings.max_depth /\ a \notin e.processed_nodes


\* the addresses of the frontier
Frontier(e) == { e.pending_nodes[i][1] : i \in 1..Len(e.pending_nodes) }

\* C14: in every state of a job, between the iterations of the loop and
\* within them, no address of the frontier is in the processed set
C14_FrontierUnprocessed ==
    \A t \in RequestIds : Frontier(tasks[t].e) \cap tasks[t].e.processed_nodes = {}

\* between two iterations the graph holds a self-transfer of a processed
\* node and a transfer of a processed node back to the processed node that
\* discovered it
C14_Witness ==
    \E t \in RequestIds :
        LET e == tasks[t].e
        IN  /\ tasks[t].pc = "loop"
            /\ \E i, j \in 1..Len(e.edges) :
                   /\ e.edges[i].from = e.edges[i].to
                   /\ e.edges[i].to \in e.processed_nodes
                   /\ e.edges[j].from \in e.processed_nodes
                   /\ e.edges[j].to \in e.processed_nodes
                   /\ Depth(e, e.edges[j].to) < Depth(e, e.edges[j].from)


\* the (from, to, tx_hash) triples of the edges of a graph
EdgeTriples(e) ==
    { << e.edges[i].from, e.edges[i].to, e.edges[i].transaction_hash >> : i \in 1..Len(e.edges) }

\* the triples of the transactions _process_node selects for the node that
\* task t is fetching
SelectedTriples(t) ==
    LET e == tasks[t].e
        filtered == apply_filtering_pipeline(e, chain[e.current_address], e.current_address,
                                             e.current_depth)
        top == Min(Len(filtered), limits.max_transactions_per_node)
    IN  { << e.current_address, filtered[i].to_address, filtered[i].transaction_hash >> :
            i \in 1..top }

\* C15: the expansion of a node leaves the working graph with one edge for
\* each distinct (from, to, tx_hash) triple inserted so far: the triples it
\* held and those of the selected transactions
C15_EdgePerTriple ==
    [][ \A t \in RequestIds :
          (tasks[t].pc = "fetching" /\ tasks'[t].pc = "progress")
          => ( /\ EdgeTriples(tasks'[t].e) = EdgeTriples(tasks[t].e) \cup SelectedTriples(t)
               /\ Len(tasks'[t].e.edges) = Cardinality(EdgeTriples(tasks'[t].e)) ) ]_vars


\* C16: the graph the post-processor left at the exit of the loop is a
\* fixed point of the post-processor (pruning, consolidation, flows)
C16_PostProcessIdempotent ==
    \A t \in RequestIds :
        tasks[t].pc = "save_results" => optimize_graph(tasks[t].e) = tasks[t].e

\* a post-processed graph that lost edges, with a consolidated group and
\* annotated flows
C16_Witness ==
    \E t \in RequestIds :
        LET e == tasks[t].e
        IN  /\ tasks[t].pc = "save_results"
            /\ Len(e.edges) < e.edges_created + 1
            /\ \E a \in Range(e.nodes) : e.attr[a].consolidated_addresses # << >>
            /\ \E i \in 1..Len(e.edges) : e.edges[i].flow_percentage # None


\* the rule list of the classifier, first match first: << kind, confidence >>
FirstRule(address, tx_count, daily, times_seen) ==
    CASE address \in DOMAIN known_addresses
           -> << known_addresses[address].entity_type, known_addresses[address].confidence >>
      [] address \notin DOMAIN known_addresses /\ daily > 100
           -> << "high_frequency_service", 60 >>
      [] address \notin DOMAIN known_addresses /\ daily <= 100 /\ times_seen >= 3
           -> << "consolidation_point", 70 >>
      [] OTHER ->
           IF tx_count > 10000 /\ daily > 500 THEN << "CEX", 40 >>
           ELSE IF tx_count > 10000 THEN << "potential_endpoint", 30 >>
           ELSE IF tx_count > 1000 THEN << "potential_endpoint", 25 >>
           ELSE IF tx_count < 100 /\ daily < 5 THEN << "potential_endpoint", 20 >>
           ELSE << "Unknown", 0 >>

\* C17: classify_address returns the kind and the confidence of the first
\* rule that matches, in the order directory, daily_tx_count > 100,
\* times_seen_in_graph >= 3, the volume rules, Unknown; a directory hit
\* also returns the name of the entry
C17_ClassifierPrecedence ==
    probe.pc = "classified"
    => ( /\ << probe.result.entity_type, probe.result.confidence >>
               = FirstRule(probe.address, probe.transaction_count, probe.daily_tx_count,
                           probe.times_seen_in_graph)
         /\ probe.address \in DOMAIN known_addresses
              => probe.result.details.text = known_addresses[probe.address].name )

\* a directory address classified with statistics that match three other
\* rules
C17_Witness ==
    /\ probe.pc = "classified"
    /\ probe.address \in DOMAIN known_addresses
    /\ probe.daily_tx_count > 500
    /\ probe.transaction_count > 10000
    /\ probe.times_seen_in_graph >= 3
    /\ probe.result.entity_type = "CEX"
    /\ probe.result.confidence = 95


\* the size-scaled minimum, in tenths of a percent, for a stolen amount in ETH
ScaledMinimum(stolen) == IF stolen > 100 THEN 1 ELSE IF stolen >= 10 THEN 5 ELSE 10

\* the primary tier as a predicate on a raw transaction of node h
SurvivesPrimary(raw, stolen) ==
    /\ raw.from = "h"
    /\ raw.value >= (5 * UnitsPerEth) \div 100
    /\ raw.value * 1000 >= ScaledMinimum(stolen) * stolen * UnitsPerEth

Hashes(txs) == [ i \in 1..Len(txs) |-> txs[i].transaction_hash ]

\* C18: the transactions the filter returns are those that are outgoing,
\* of at least 0.05 ETH and of at least the size-scaled percentage of the
\* incident's stolen amount; for a stolen amount of 5 and the values 0.10,
\* 0.06, 0.04 the output is 0.10, 0.06 in that order
C18_PrimaryTier ==
    probe.pc = "filtered"
    => ( /\ Range(Hashes(probe.result))
               = { raw.hash : raw \in { r \in Range(probe.transactions) :
                                           SurvivesPrimary(r, probe.stolen_amount) } }
         /\ ( /\ probe.stolen_amount = 5
              /\ Hashes([ i \in 1..Len(probe.transactions) |->
                            normalize_transaction(probe.transactions[i]) ])
                   = << "x10", "x06", "x04" >> )
              => Hashes(probe.result) = << "x10", "x06" >> )


\* C19: for an incident whose hacker address has no outgoing transaction,
\* a completed job reports 2 nodes and 1 edge, and endpoint_summary counts
\* one victim_wallet, one hacker_wallet and nothing else
C19_SeedOnlyGraph ==
    \A i \in IncidentIds :
        ( chain = WorldSeedOnly /\ incident_graphs[i].status = "completed" )
        => LET results == incident_graphs[i].results
           IN  /\ results.total_nodes = 2
               /\ results.total_edges = 1
               /\ results.max_depth = 1
               /\ results.endpoint_summary
                    = [ t \in EntityTypes |->
                          IF t \in { "victim_wallet", "hacker_wallet" } THEN 1 ELSE 0 ]


\* C20: when the hacker's one transfer goes to an exchange of the directory
\* and that address was expanded, the post-processed graph holds the node
\* with kind CEX, the directory's confidence, termination_reason
\* high_confidence_classification and no outgoing edge
C20_ExchangeTermination ==
    \A t \in RequestIds :
        LET e == tasks[t].e
        IN  ( /\ tasks[t].pc = "save_results"
              /\ chain = WorldExchange
              /\ "bin1" \in e.processed_nodes )
            => /\ HasNode(e, "bin1")
               /\ e.attr["bin1"].entity_type = "CEX"
               /\ e.attr["bin1"].confidence_score = known_addresses["bin1"].confidence
               /\ e.attr["bin1"].termination_reason = "high_confidence_classification"
               /\ out_degree(e, "bin1") = 0
               /\ \E i \in 1..Len(e.edges) : e.edges[i].from = "h" /\ e.edges[i].to = "bin1"

\* the exchange was expanded and the loop has ended
C20_Witness ==
    \E t \in RequestIds :
        /\ tasks[t].pc = "save_results"
        /\ chain = WorldExchange
        /\ "bin1" \in tasks[t].e.processed_nodes
        /\ tasks[t].e.api_calls_used = 2
        /\ HasNode(tasks[t].e, "bin1")


\* the step of the loop head that ends the loop and runs the post-processor
PostProcessed(t) == tasks[t].pc = "loop" /\ tasks'[t].pc = "save_results"

\* the nodes of e that carry the name of a, in the order of their discovery
NameGroup(e, a) ==
    SelectSeq(e.nodes, LAMBDA x : e.attr[x].classification_details
                                    = e.attr[a].classification_details)
Named(e, a) == e.attr[a].classification_details # NoDetails

\* C21: of every group of two or more nodes that share a name the
\* post-processed graph holds the member discovered first and no other,
\* and that member's consolidated_addresses lists the other members
C21_ConsolidationMaster ==
    [][ \A t \in RequestIds :
          PostProcessed(t)
          => \A a \in Range(tasks[t].e.nodes) :
                LET group == NameGroup(tasks[t].e, a)
                    after == tasks'[t].e
                IN  ( Named(tasks[t].e, a) /\ Len(group) >= 2 )
                    => /\ Range(group) \cap Range(after.nodes) = { Head(group) }
                       /\ after.attr[Head(group)].consolidated_addresses = Tail(group) ]_vars

\* a group of three was consolidated: the master lists the two others
C21_Witness ==
    \E t \in RequestIds :
        /\ tasks[t].pc = "save_results"
        /\ \E a \in Range(tasks[t].e.nodes) :
               /\ Len(tasks[t].e.attr[a].consolidated_addresses) = 2
               /\ Range(tasks[t].e.attr[a].consolidated_addresses) \cap Range(tasks[t].e.nodes) = {}


SelfLoops(e) == { i \in 1..Len(e.edges) : e.edges[i].from = e.edges[i].to }

\* C22: the post-processed graph has no edge from a node to itself
C22_NoSelfLoop ==
    \A t \in RequestIds :
        tasks[t].pc \in { "save_results", "save_node", "save_edge" }
        => SelfLoops(tasks[t].e) = {}


\* a call of get_account_transactions(a) is made in this step
Called(a) == probe.pc = "idle" /\ probe'.calls = probe.calls + 1 /\ probe'.address = a
Stored(a) == cache[a] # NoEntry
Age(a) == now - cache[a].timestamp

\* C23: a call made less than the TTL after the entry of its address was
\* stored returns what the call before it returned and makes no upstream
\* request; a call that finds an entry as old as the TTL or older makes the
\* request, and the entry is gone when the lookup is over
C23_CacheTransparency ==
    [][ \A a \in CacheAddresses :
          Called(a)
          => /\ ( Stored(a) /\ Age(a) < cache_ttl_seconds )
                => /\ probe'.pc = "idle"
                   /\ probe.last[a].returned
                   /\ probe'.result = probe.last[a].result
                   /\ probe'.upstream = probe.upstream
                   /\ cache' = cache
             /\ ( Stored(a) /\ Age(a) >= cache_ttl_seconds )
                => /\ probe'.pc = "request"
                   /\ probe'.upstream = probe.upstream + 1
                   /\ cache'[a] = NoEntry ]_vars

\* a call was served from the cache although the chain has changed since,
\* after an earlier call had found its entry expired
C23_Witness ==
    /\ probe.pc = "idle"
    /\ probe.served = "cache"
    /\ probe.result # chain[probe.address]
    /\ probe.calls = MaxCacheCalls
    /\ probe.upstream = 2
    /\ now > cache_ttl_seconds


\* the step in which _persist_graph_to_database has written its last row
Persisted(t) == tasks[t].pc \in { "save_node", "save_edge" } /\ tasks'[t].pc = "done"

\* the node and edge of the working graph as rows of the repository
NodeRow(e, a) ==
    [ entity_type |-> entity_type_of(e, a), confidence_score |-> confidence_of(e, a),
      depth_from_hack |-> e.attr[a].depth_from_hack,
      transaction_count |-> IF e.attr[a].transaction_count = None THEN 0
                            ELSE e.attr[a].transaction_count,
      termination_reason |-> e.attr[a].termination_reason,
      manual_exploration_ready |-> e.attr[a].manual_exploration_ready ]
EdgeRow(d) ==
    [ from_address |-> d.from, to_address |-> d.to, transaction_hash |-> d.transaction_hash,
      value_eth |-> d.value_eth, priority_score |-> d.priority_score,
      filter_reason |-> d.filter_reason ]

StoredIsGraph(i, e) ==
    /\ DOMAIN graph_nodes'[i] = Range(e.nodes)
    /\ \A a \in Range(e.nodes) : graph_nodes'[i][a] = NodeRow(e, a)
    /\ graph_edges'[i] = { EdgeRow(e.edges[k]) : k \in 1..Len(e.edges) }
    /\ incident_graphs'[i].results.total_nodes = Cardinality(DOMAIN graph_nodes'[i])
    /\ incident_graphs'[i].results.total_edges = Cardinality(graph_edges'[i])

\* C24: when a job has written the last row of its graph, the rows of
\* graph_nodes and graph_edges of the incident are the nodes and the edges of
\* the final graph with their attributes, and the totals of the record count
\* them, also when an earlier job had processed the incident
C24_PersistReload ==
    [][ \A t \in RequestIds : Persisted(t) => StoredIsGraph(tasks[t].job_id, tasks[t].e) ]_vars


\* the two seeds of the incident a task works on
Seeds(t) ==
    { wallet_address[tasks[t].job_id], transaction_details[tasks[t].job_id][1].to_address }

\* C25: the post-processed graph of every run holds the victim seed and the
\* hacker seed
C25_SeedsNeverPruned ==
    \A t \in RequestIds :
        tasks[t].pc \in { "save_results", "save_node", "save_edge" }
        => Seeds(t) \subseteq Range(tasks[t].e.nodes)


\* a call of get_account_transactions by task t ends in this step: the
\* awaited request returns or raises, or the cache answers at once
FetchEnded(t) ==
    \/ tasks[t].pc = "fetching" /\ tasks'[t].pc # "fetching"
    \/ tasks[t].pc = "loop" /\ tasks'[t].pc = "progress"

\* the calls of get_account_transactions task t has made
FetchesMade(t) ==
    tasks[t].e.api_calls_used
      + (IF tasks[t].pc = "fetching" \/ tasks[t].error = "RetryError" THEN 1 ELSE 0)

\* C26: every call of the transaction source that ends, with a result or
\* with a failure, adds exactly one to api_calls_used, and a job makes at
\* most max_api_calls of them
C26_FetchCounted ==
    [][ \A t \in RequestIds :
          /\ FetchEnded(t)
               => tasks'[t].e.api_calls_used = tasks[t].e.api_calls_used + 1
          /\ Spawned(t) => FetchesMade(t) <= settings.max_api_calls ]_vars


\* the awaited get_account_transactions of task t raises in this step
FetchFailed(t) == tasks[t].pc = "fetching" /\ tasks'[t].pc \notin { "fetching", "progress" }

\* C27: when the fetch of a node fails, the node gets the termination_reason
\* upstream_unavailable and is not queued again, the rest of the frontier is
\* kept and the traversal goes on: the job is not on its way to the error
\* record
C27_FetchFailureLocal ==
    [][ \A t \in RequestIds :
          FetchFailed(t)
          => LET address == tasks[t].e.current_address
                 after == tasks'[t].e
             IN  /\ tasks'[t].pc \in { "loop", "progress" }
                 /\ after.attr[address].termination_reason = "upstream_unavailable"
                 /\ address \notin Frontier(after)
                 /\ Frontier(tasks[t].e) \ { address } \subseteq Frontier(after) ]_vars

\* the row of a job whose fetch failed
FailedFetchRow(t) == tasks[t].error = "RetryError" /\ tasks[t].pc = "done"

\* C28: a job all of whose fetches failed is recorded with status error, the
\* error_code ETHERSCAN_API_LIMIT or ETHERSCAN_API_ERROR, and partial_results
\* counting the nodes and edges of its graph
C28_UpstreamErrorRecord ==
    \A t \in RequestIds :
        ( FailedFetchRow(t) /\ tasks[t].e.api_calls_used = 0 )
        => /\ Row(t).status = "error"
           /\ Row(t).error_code \in { "ETHERSCAN_API_LIMIT", "ETHERSCAN_API_ERROR" }
           /\ Row(t).partial_results.present
           /\ Row(t).partial_results.total_nodes = Len(tasks[t].e.nodes)
           /\ Row(t).partial_results.total_edges = Len(tasks[t].e.edges)


RECURSIVE OutgoingValue(_, _, _)
\* the value the first n transactions of txs move out of address a
OutgoingValue(txs, n, a) ==
    IF n = 0 THEN 0
    ELSE OutgoingValue(txs, n - 1, a) + (IF txs[n].from = a THEN txs[n].value ELSE 0)

\* the number of transactions of txs sent by address a
OutgoingCount(txs, a) == Cardinality({ i \in 1..Len(txs) : txs[i].from = a })

\* the outgoing value of a is under 5% of the stolen amount
LowValueFlow(a) == 100 * OutgoingValue(chain[a], Len(chain[a]), a) < 5 * get_total_stolen_amount

\* one of the termination conditions holds for the statistics of node a
TerminationDue(e, a) ==
    \/ e.attr[a].confidence_score > 70 /\ e.attr[a].entity_type \in { "CEX", "DEX", "Mixer" }
    \/ OutgoingCount(chain[a], a) > 200
    \/ LowValueFlow(a)
    \/ e.attr[a].entity_type = "high_frequency_service"

\* C29: while the loop runs, a node marked insufficient_value_flow sends
\* less than 5% of the stolen amount, a node marked high_transaction_volume
\* has more than 200 outgoing transactions, and an expanded node for which
\* no termination condition holds has no termination_reason
C29_TerminationReasonJustified ==
    \A t \in RequestIds :
        LET e == tasks[t].e
        IN  tasks[t].pc \in { "loop", "progress" }
            => \A a \in e.processed_nodes :
                   HasNode(e, a)
                   => /\ e.attr[a].termination_reason = "insufficient_value_flow"
                         => LowValueFlow(a)
                      /\ e.attr[a].termination_reason = "high_transaction_volume"
                         => OutgoingCount(chain[a], a) > 200
                      /\ ~ TerminationDue(e, a) => e.attr[a].termination_reason = "None"


\* the number of edges of the working graph that start or end at address a
Appearances(e, a) ==
    Cardinality({ i \in 1..Len(e.edges) : e.edges[i].from = a \/ e.edges[i].to = a })

\* C30: at every loop head the visit count of each address is the number of
\* edges of the working graph in which the address is source or target
C30_VisitCountIsAppearances ==
    \A t \in RequestIds :
        tasks[t].pc = "loop"
        => \A a \in Addresses :
               tasks[t].e.address_visit_count[a] = Appearances(tasks[t].e, a)


\* task t ends the expansion of a node in this step
Expands(t) == tasks[t].pc \in { "loop", "fetching" } /\ tasks'[t].pc = "progress"

\* the transactions the expansion of task t was given: the response of the
\* source, or the cached one when the loop head was served from the cache
Fetched(t) ==
    IF tasks[t].pc = "fetching" THEN chain[tasks[t].e.current_address]
    ELSE cache[tasks'[t].e.current_address].data

\* the positions of txs that pass the primary tier for address a
Kept(txs, a) ==
    { i \in 1..Len(txs) : primary_filter(normalize_transaction(txs[i]), a, get_total_stolen_amount) }

\* the score the secondary tier gives the transaction at position i
ScoreOf(e, txs, i) == secondary_filter(e, normalize_transaction(txs[i])).priority_score

\* the rank of position i: after every kept entry of a higher score and
\* every earlier kept entry of the same score
RankOf(e, txs, a, i) ==
    1 + Cardinality({ j \in Kept(txs, a) :
                        \/ ScoreOf(e, txs, j) > ScoreOf(e, txs, i)
                        \/ ScoreOf(e, txs, j) = ScoreOf(e, txs, i) /\ j < i })

\* the positions of the top max_transactions_per_node entries
TopRanked(e, txs, a) ==
    { i \in Kept(txs, a) : RankOf(e, txs, a, i) <= e.limits.max_transactions_per_node }

\* C31: an expansion adds the edges of the top max_transactions_per_node
\* entries of the ranking by priority_score descending, ties in the order of
\* the source, in the order of their ranks, and adds no more than
\* max_transactions_per_node edges and nodes
C31_TopRankedInserted ==
    [][ \A t \in RequestIds :
          Expands(t)
          => LET before == tasks[t].e
                 after == tasks'[t].e
                 a == after.current_address
                 txs == Fetched(t)
                 top == TopRanked(after, txs, a)
                 fresh == (Len(before.edges) + 1)..Len(after.edges)
                 first(to) == CHOOSE i \in top :
                                  /\ txs[i].to = to
                                  /\ \A j \in top : txs[j].to = to
                                        => RankOf(after, txs, a, i) <= RankOf(after, txs, a, j)
             IN  /\ \A p \in fresh :
                        /\ after.edges[p].from = a
                        /\ \E i \in top : /\ txs[i].to = after.edges[p].to
                                           /\ txs[i].hash = after.edges[p].transaction_hash
                 /\ \A i \in top : \E p \in fresh : after.edges[p].to = txs[i].to
                 /\ \A p, q \in fresh :
                        p < q => RankOf(after, txs, a, first(after.edges[p].to))
                                   < RankOf(after, txs, a, first(after.edges[q].to))
                 /\ Cardinality(fresh) <= after.limits.max_transactions_per_node
                 /\ Len(after.nodes) - Len(before.nodes) <= after.limits.max_transactions_per_node ]_vars

\* a node with three kept transactions, two of them of the same score, was
\* expanded: the tied pair is in the graph and the third is not
C31_Witness ==
    \E t \in RequestIds :
        /\ chain = WorldExchangeLater
        /\ tasks[t].pc = "progress"
        /\ tasks[t].e.current_address = "h"
        /\ Cardinality(Kept(chain["h"], "h")) = 3
        /\ HasEdge(tasks[t].e, "h", "a") /\ HasEdge(tasks[t].e, "h", "b")
        /\ ~ HasEdge(tasks[t].e, "h", "bin1")


\* the loop of task t is at its head and its condition is false: nothing is
\* pending, or the call budget or the node budget is used up
LoopEnds(t) ==
    /\ tasks[t].pc = "loop"
    /\ \/ tasks[t].e.pending_nodes = << >>
       \/ tasks[t].e.api_calls_used >= tasks[t].e.limits.max_api_calls
       \/ Len(tasks[t].e.nodes) >= tasks[t].e.limits.max_nodes

Finalizing == { "save_results", "save_node", "save_edge" }

ResultsWritten(t) == tasks[t].pc \in { "save_node", "save_edge" } /\ Row(t).status = "completed"

\* C33: top_paths of a completed job has min(10, number of edges of the
\* final graph) entries, ordered by value descending, and entry i carries
\* the rank i
C33_TopPathsRanked ==
    \A t \in RequestIds :
        ResultsWritten(t)
        => LET top_paths == Row(t).results.top_paths
           IN  /\ Len(top_paths) = Min(10, Len(tasks[t].e.edges))
               /\ \A i, j \in 1..Len(top_paths) :
                      i < j => top_paths[i].value_eth >= top_paths[j].value_eth
               /\ \A i \in 1..Len(top_paths) : top_paths[i].path_id = i


\* shutdown has ended: it returned, or the iteration of job_tasks raised
ShutdownEnded == sd.pc \in { "done", "failed" }

\* C34: when shutdown has ended no job task is running, every job it
\* cancelled is recorded with error_code JOB_CANCELLED, and the client of
\* the transaction source is closed
C34_ShutdownCancelsAll ==
    ShutdownEnded
    => /\ \A t \in RequestIds : ~ Live(t)
       /\ \A t \in RequestIds : tasks[t].cancelled => Row(t).error_code = "JOB_CANCELLED"
       /\ sd.client_closed


\* C35: the working graph of a job never holds more than max_nodes nodes
C35_NodeCap ==
    \A t \in RequestIds : Len(tasks[t].e.nodes) <= tasks[t].e.limits.max_nodes


C37_MergeOnlyDirectoryNames ==
    \A t \in RequestIds :
        tasks[t].pc \in Finalizing
        => LET e == tasks[t].e
           IN  \A x \in Range(e.nodes) :
                   \A i \in 1..Len(e.attr[x].consolidated_addresses) :
                       LET a == e.attr[x].consolidated_addresses[i]
                       IN  /\ x \in DOMAIN known_addresses
                           /\ a \in DOMAIN known_addresses
                           /\ known_addresses[a].name = known_addresses[x].name


\* C38: in a job no address is fetched twice or queued twice (a queued
\* address is one the graph did not hold, and the queue has no address
\* twice), and at every loop head nodes_processed is the number of processed
\* addresses and api_calls_used is at most nodes_processed
C38_FetchedAndQueuedOnce ==
    [][ \A t \in RequestIds :
          LET before == tasks[t].e
              after == tasks'[t].e
          IN  /\ \A a \in Addresses : after.address_visit_count[a] <= 1
              /\ Cardinality(Frontier(after)) = Len(after.pending_nodes)
              /\ \A a \in Frontier(after) \ Frontier(before) : ~ HasNode(before, a)
              /\ tasks'[t].pc = "loop"
                 => /\ after.nodes_processed = Cardinality(after.processed_nodes)
                    /\ after.api_calls_used <= after.nodes_processed ]_vars

\* a loop head on the chain with cycles after h and a were expanded: each
\* was a destination again and neither is queued
C38_Witness ==
    \E t \in RequestIds :
        /\ chain = WorldLoop
        /\ tasks[t].pc = "loop"
        /\ tasks[t].e.processed_nodes = { "h", "a" }
        /\ tasks[t].e.nodes_processed = 2
        /\ HasEdge(tasks[t].e, "a", "h")
        /\ tasks[t].e.pending_nodes = << >>


\* the record of incident i becomes pending in this step: a start was accepted
Accepted(i) == incident_graphs'[i].status = "pending" /\ incident_graphs[i].status # "pending"

\* C39: the record of an accepted start shows no partial_results and no
\* results, and the error record of a run whose handler writes no
\* partial_results shows none
C39_RecordReset ==
    [][ \A i \in incidents :
          /\ Accepted(i)
             => /\ incident_graphs'[i].partial_results = NoPartial
                /\ incident_graphs'[i].results = NoResults
          /\ ( /\ incident_graphs[i].status \in Processing
               /\ incident_graphs'[i].status = "error"
               /\ incident_graphs'[i].error_code = "INTERNAL_ERROR" )
             => incident_graphs'[i].partial_results = NoPartial ]_vars


\* the record of the job of task t shows completed
ShowsCompleted(t) == Spawned(t) /\ Row(t).status = "completed"

\* C40: whenever the record of a job shows completed, the nodes and edges
\* of its graph are rows of the repository, and no later step changes the
\* status of the record
C40_CompletedIsLastWrite ==
    [][ \A t \in RequestIds :
          ShowsCompleted(t)
          => LET i == tasks[t].job_id
                 e == tasks[t].e
             IN  /\ DOMAIN graph_nodes[i] = Range(e.nodes)
                 /\ graph_edges[i] = { EdgeRow(e.edges[k]) : k \in 1..Len(e.edges) }
                 /\ incident_graphs'[i].status = "completed" ]_vars

===========================================================================
